---- MODULE Spec2Model ----
(***************************************************************************)
(* Job lifecycle reconciliation of app/video_generator.py: the two redis   *)
(* hashes tasks_status (active partition) and completed_tasks (terminal    *)
(* partition), the redis sets pending_tasks / running_tasks, the           *)
(* submission (generate_video), the reconciliation tick                    *)
(* (_update_queue_status), the history resolver (_check_task_history),     *)
(* the artifact download (_download_video), the sweep (_cleanup_old_tasks) *)
(* and delete_task of app/routes.py, against a remote engine that owns a   *)
(* queue and a history.                                                    *)
(*                                                                         *)
(* Python dicts are TLA+ functions whose DOMAIN is the set of keys that    *)
(* are present.  Texts (prompts, model names) are sequences of tokens so   *)
(* that split("/") and replace(".safetensors", "") are computed; None is   *)
(* the empty sequence.                                                     *)
(***************************************************************************)
EXTENDS Integers, Sequences, FiniteSets, TLC

\* ------------------------------------------------------------------ bounds
MaxTime == 1
MaxSeed == 2

\* the ids the engine hands out
JobIds == {"J1", "J2"}

\* ------------------------------------------------------- python-dict helpers
None == <<>>

Has(d, k) == k \in DOMAIN d

Get(d, k, dflt) == IF k \in DOMAIN d THEN d[k] ELSE dflt

DictUpdate(d, e) == e @@ d

EmptyHash == [k \in {} |-> None]

HSet(h, k, v) == (k :> v) @@ h

HDel(h, k) == [x \in (DOMAIN h) \ {k} |-> h[x]]

MinOf(S) == CHOOSE i \in S : \A k \in S : i <= k

MaxOf(S) == CHOOSE i \in S : \A k \in S : i >= k

\* ------------------------------------------------------------ text helpers
\* model_name.split("/")[0] when "/" is in the name
SplitSlashFirst(t) ==
    LET S == {i \in 1..Len(t) : t[i] = "/"}
    IN  IF S = {} THEN t ELSE SubSeq(t, 1, MinOf(S) - 1)

IsSafetensors(tok) == tok = ".safetensors"

\* unet_name.replace(".safetensors", "")
StripSafetensors(t) == SelectSeq(t, LAMBDA tok : ~IsSafetensors(tok))

\* f"正在等待队列中，位置: {i+1}"
QueueMessage(pos) == "waiting in queue, position: " \o ToString(pos)

MsgInitialized == "Task initialized"
MsgProcessing == "task is processing"
MsgVideoDone == "video generated"
MsgImageDone == "image generated"
MsgDoneNoOutput == "task completed but no output found"
MsgFailedRemote == "task failed in ComfyUI"
MsgDone == "task completed"
MsgStillProcessing == "task still processing"
MsgUnknown == "cannot determine task status"
MsgNotFound == "task not found in history"
MsgHistoryHttp == "history check failed: HTTP 500"
MsgHistoryFailed == "history check failed"

\* ------------------------------------------------------ workflow graphs
\* A workflow is the ordered mapping node id -> node of the JSON file; the
\* sequence order is the dict iteration order.
WorkflowNames == {<<"wan">>, <<"flux">>, <<"sdxl">>}

WanWorkflow ==
    << [id |-> "1", class_type |-> "WanVideoModelLoader",
        inputs |-> [model |-> <<"WanVideo", "/", "wan2_1", ".safetensors">>]],
       [id |-> "2", class_type |-> "WanVideoTextEncode",
        inputs |-> [positive_prompt |-> <<"template">>]],
       [id |-> "3", class_type |-> "WanVideoSampler",
        inputs |-> [seed |-> 0]] >>

FluxWorkflow ==
    << [id |-> "1", class_type |-> "UNETLoader",
        inputs |-> [unet_name |-> <<"flux1-dev", ".safetensors">>]],
       [id |-> "2", class_type |-> "KSampler",
        inputs |-> [seed |-> 0, positive |-> <<"3", 0>>]],
       [id |-> "3", class_type |-> "CLIPTextEncode",
        inputs |-> [text |-> <<"template">>]] >>

\* a graph whose loader and text node are of classes that neither the
\* substitution of generate_video nor the resolver looks for
SdxlWorkflow ==
    << [id |-> "1", class_type |-> "CheckpointLoaderSimple",
        inputs |-> [ckpt_name |-> <<"sd_xl_base", ".safetensors">>]],
       [id |-> "2", class_type |-> "BizyAir_CLIPTextEncode",
        inputs |-> [text |-> <<"template">>]],
       [id |-> "3", class_type |-> "KSampler",
        inputs |-> [seed |-> 0, positive |-> <<"2", 0>>]] >>

LoadWorkflow(model) ==
    IF model = <<"wan">> THEN WanWorkflow
    ELSE IF model = <<"flux">> THEN FluxWorkflow
    ELSE SdxlWorkflow

NodeById(workflow, nid) ==
    LET S == {i \in 1..Len(workflow) : workflow[i].id = nid}
    IN  IF S = {} THEN None ELSE workflow[MinOf(S)]

\* generate_video: write the prompt and the seed into the nodes
SubstituteNode(node, prompt, seed) ==
    IF ~Has(node, "inputs") THEN node
    ELSE LET in0 == node.inputs
             in1 == IF node.class_type = "CLIPTextEncode" /\ Has(in0, "text")
                       THEN DictUpdate(in0, [text |-> prompt])
                    ELSE IF node.class_type = "WanVideoTextEncode"
                            /\ Has(in0, "positive_prompt")
                       THEN DictUpdate(in0, [positive_prompt |-> prompt])
                    ELSE in0
             in2 == IF Has(in1, "seed") THEN DictUpdate(in1, [seed |-> seed])
                    ELSE in1
         IN  [node EXCEPT !.inputs = in2]

SubstituteWorkflow(workflow, prompt, seed) ==
    [i \in 1..Len(workflow) |-> SubstituteNode(workflow[i], prompt, seed)]

\* ------------------------------------------------- metadata extraction
NoHit == [found |-> FALSE, value |-> None]

Hit(v) == [found |-> TRUE, value |-> v]

\* one iteration of the prompt loop of an existing record (the branches that
\* assign and break)
PromptHitFull(workflow, node) ==
    IF ~Has(node, "inputs") THEN NoHit
    ELSE IF node.class_type = "CLIPTextEncode" /\ Has(node.inputs, "text")
        THEN Hit(node.inputs.text)
    ELSE IF node.class_type = "WanVideoTextEncode" /\ Has(node.inputs, "positive_prompt")
        THEN Hit(node.inputs.positive_prompt)
    ELSE IF node.class_type = "BizyAir_CLIPTextEncode" /\ Has(node.inputs, "text")
        THEN Hit(node.inputs.text)
    ELSE IF node.class_type = "KSampler" /\ Has(node.inputs, "positive")
        THEN LET ref == node.inputs.positive
                 target == IF Len(ref) >= 2 THEN NodeById(workflow, ref[1]) ELSE None
             IN  IF target # None /\ Has(target, "inputs") /\ Has(target.inputs, "text")
                    THEN Hit(target.inputs.text)
                    ELSE NoHit
    ELSE NoHit

\* one iteration of the prompt loop of a new record and of the resolver
PromptHitBasic(node) ==
    IF ~Has(node, "inputs") THEN NoHit
    ELSE IF node.class_type = "CLIPTextEncode" /\ Has(node.inputs, "text")
        THEN Hit(node.inputs.text)
    ELSE IF node.class_type = "WanVideoTextEncode" /\ Has(node.inputs, "positive_prompt")
        THEN Hit(node.inputs.positive_prompt)
    ELSE NoHit

\* one iteration of the model loop of the tick
ModelHitWan(node) ==
    IF Has(node, "inputs") /\ node.class_type = "WanVideoModelLoader"
       /\ Has(node.inputs, "model")
        THEN Hit(SplitSlashFirst(node.inputs.model))
        ELSE NoHit

\* one iteration of the model loop of the resolver
ModelHitHistory(node) ==
    IF ~Has(node, "inputs") THEN NoHit
    ELSE IF node.class_type = "UNETLoader" /\ Has(node.inputs, "unet_name")
        THEN Hit(StripSafetensors(node.inputs.unet_name))
    ELSE IF node.class_type = "WanVideoModelLoader" /\ Has(node.inputs, "model")
        THEN Hit(SplitSlashFirst(node.inputs.model))
    ELSE NoHit

HitIndexes(workflow, HitOp(_)) == {i \in 1..Len(workflow) : HitOp(workflow[i]).found}

\* a loop that assigns and breaks: the first matching node
FirstHit(workflow, HitOp(_)) ==
    LET S == HitIndexes(workflow, HitOp)
    IN  IF S = {} THEN NoHit ELSE HitOp(workflow[MinOf(S)])

\* a loop that assigns without break: the last matching node
LastHit(workflow, HitOp(_)) ==
    LET S == HitIndexes(workflow, HitOp)
    IN  IF S = {} THEN NoHit ELSE HitOp(workflow[MaxOf(S)])

\* lines 235-267 and 328-360: fill prompt / model of an existing record
ExtractIntoExisting(task_info, task) ==
    LET withPrompt ==
            IF ~Has(task_info, "prompt") /\ Has(task, "workflow")
                THEN LET h == FirstHit(task.workflow,
                                       LAMBDA n : PromptHitFull(task.workflow, n))
                     IN  IF h.found THEN DictUpdate(task_info, [prompt |-> h.value])
                         ELSE task_info
                ELSE task_info
        withModel ==
            IF ~Has(task_info, "model") /\ Has(task, "workflow")
                THEN LET h == FirstHit(task.workflow, ModelHitWan)
                     IN  IF h.found THEN DictUpdate(withPrompt, [model |-> h.value])
                         ELSE withPrompt
                ELSE withPrompt
    IN  withModel

\* lines 275-289 and 368-382: prompt and model of a new record
ExtractForNew(task) ==
    IF Has(task, "workflow")
        THEN [prompt |-> LastHit(task.workflow, PromptHitBasic).value,
              model |-> LastHit(task.workflow, ModelHitWan).value]
        ELSE [prompt |-> None, model |-> None]

\* ------------------------------------------------------- artifact cache
OUTPUT_DIR == "output/"

Filenames == {"ComfyUI_00001"}

LocalPath(filename) == OUTPUT_DIR \o filename

LocalPaths == {LocalPath(f) : f \in Filenames}

\* what the GET of the artifact does: it succeeds, it fails before the local
\* file is opened (connection error, raise_for_status), or the stream breaks
\* after open(local_path, 'wb') created the file
DownloadOutcomes == {"ok", "fail_request", "fail_stream"}

\* a download that does not look for the local file first
DownloadVideoAlways(local_path, dl, fs) ==
    IF dl = "ok"
        THEN [called |-> TRUE, raised |-> FALSE, requested |-> TRUE,
              files |-> [fs EXCEPT ![local_path] = "complete"]]
    ELSE IF dl = "fail_stream"
        THEN [called |-> TRUE, raised |-> TRUE, requested |-> TRUE,
              files |-> [fs EXCEPT ![local_path] = "partial"]]
    ELSE [called |-> TRUE, raised |-> TRUE, requested |-> TRUE, files |-> fs]

\* a download that answers without writing the local file
DownloadVideoNoWrite(local_path, dl, fs) ==
    IF fs[local_path] # "absent"
        THEN [called |-> TRUE, raised |-> FALSE, requested |-> FALSE, files |-> fs]
    ELSE IF dl = "ok"
        THEN [called |-> TRUE, raised |-> FALSE, requested |-> TRUE, files |-> fs]
    ELSE IF dl = "fail_stream"
        THEN [called |-> TRUE, raised |-> TRUE, requested |-> TRUE,
              files |-> [fs EXCEPT ![local_path] = "partial"]]
    ELSE [called |-> TRUE, raised |-> TRUE, requested |-> TRUE, files |-> fs]

\* _download_video: fs maps a local path to "absent", "partial" or "complete";
\* requested tells whether the GET was issued
DownloadVideo(local_path, dl, fs) ==
    IF fs[local_path] # "absent"
        THEN [called |-> TRUE, raised |-> FALSE, requested |-> FALSE, files |-> fs]
    ELSE IF dl = "ok"
        THEN [called |-> TRUE, raised |-> FALSE, requested |-> TRUE,
              files |-> [fs EXCEPT ![local_path] = "complete"]]
    ELSE IF dl = "fail_stream"
        THEN [called |-> TRUE, raised |-> TRUE, requested |-> TRUE,
              files |-> [fs EXCEPT ![local_path] = "partial"]]
    ELSE [called |-> TRUE, raised |-> TRUE, requested |-> TRUE, files |-> fs]

NoDownload(fs) == [called |-> FALSE, raised |-> FALSE, requested |-> FALSE, files |-> fs]

\* ------------------------------------------------------ history resolver
HistoryError(msg) == [status |-> "error", message |-> msg]

\* the loop over outputs.items(): "return" with the result of the first output
\* that names a file, "raised" when the download (or a lookup) raises,
\* "none" when the loop ends without returning
RECURSIVE ScanOutputs(_, _, _, _)
ScanOutputs(outputs, i, dl, fs) ==
    IF i > Len(outputs) THEN [kind |-> "none", download |-> NoDownload(fs)]
    ELSE
      LET output == outputs[i]
          gifname == IF Has(output, "gifs") /\ output.gifs # <<>>
                        THEN Get(output.gifs[1], "filename", "")
                        ELSE ""
          is_animated == /\ Has(output, "animated")
                         /\ output.animated # <<>>
                         /\ output.animated[1]
      IN  IF gifname # ""
            THEN LET d == DownloadVideo(LocalPath(gifname), dl, fs)
                 IN  IF d.raised THEN [kind |-> "raised", download |-> d]
                     ELSE [kind |-> "return", download |-> d,
                           result |-> [status |-> "completed",
                                       message |-> MsgVideoDone,
                                       output_path |-> LocalPath(gifname),
                                       type |-> "video",
                                       preview_url |-> "/static/output/" \o gifname]]
          ELSE IF Has(output, "images") /\ output.images # <<>>
            THEN IF ~Has(output.images[1], "filename")
                   THEN [kind |-> "raised", download |-> NoDownload(fs)]
                   ELSE
                     LET filename == output.images[1].filename
                         d == DownloadVideo(LocalPath(filename), dl, fs)
                     IN  IF d.raised THEN [kind |-> "raised", download |-> d]
                         ELSE [kind |-> "return", download |-> d,
                               result |-> [status |-> "completed",
                                           message |-> IF is_animated THEN MsgVideoDone
                                                       ELSE MsgImageDone,
                                           output_path |-> LocalPath(filename),
                                           type |-> IF is_animated THEN "video"
                                                    ELSE "image",
                                           preview_url |-> "/static/output/" \o filename]]
          ELSE ScanOutputs(outputs, i + 1, dl, fs)

HistoryPrompt(task_history) ==
    IF Has(task_history, "prompt") /\ Has(task_history.prompt, "workflow")
        THEN FirstHit(task_history.prompt.workflow, PromptHitBasic).value
        ELSE None

HistoryModel(task_history) ==
    LET prompt_data == Get(task_history, "prompt", EmptyHash)
        client_model == IF Has(prompt_data, "extra") /\ Has(prompt_data.extra, "model")
                           THEN prompt_data.extra.model
                           ELSE None
    IN  IF client_model = None /\ Has(prompt_data, "workflow")
            THEN FirstHit(prompt_data.workflow, ModelHitHistory).value
            ELSE client_model

\* the part of the resolver after the outputs: completion status
HistoryStatusResult(task_history) ==
    LET prompt == HistoryPrompt(task_history)
        model == HistoryModel(task_history)
        status == Get(task_history, "status", EmptyHash)
        completed == Get(status, "completed", FALSE)
        status_str == Get(status, "status_str", "")
    IN  IF completed /\ status_str = "success"
            THEN [status |-> "completed", message |-> MsgDoneNoOutput,
                  prompt |-> prompt, model |-> model]
        ELSE IF DOMAIN status # {}
            THEN IF completed
                    THEN IF status_str = "error"
                            THEN [status |-> "error", message |-> MsgFailedRemote,
                                  prompt |-> prompt, model |-> model]
                            ELSE [status |-> "completed", message |-> MsgDone,
                                  prompt |-> prompt, model |-> model]
                    ELSE [status |-> "processing", message |-> MsgStillProcessing,
                          prompt |-> prompt, model |-> model]
        ELSE [status |-> "unknown", message |-> MsgUnknown,
              prompt |-> prompt, model |-> model]

\* a resolver whose handler puts the text of the exception in the message
CheckTaskHistoryLeaksError(task_id, resp, dl, fs) ==
    IF resp.raises
        THEN [result |-> HistoryError(MsgHistoryFailed \o ": ConnectionError"),
              download |-> NoDownload(fs)]
    ELSE IF resp.status_code = 200
        THEN IF ~Has(resp.body, task_id)
               THEN [result |-> HistoryError(MsgHistoryFailed),
                     download |-> NoDownload(fs)]
               ELSE
                 LET task_history == resp.body[task_id]
                     scan == IF Has(task_history, "outputs")
                                THEN ScanOutputs(task_history.outputs, 1, dl, fs)
                                ELSE [kind |-> "none", download |-> NoDownload(fs)]
                 IN  IF scan.kind = "raised"
                        THEN [result |-> HistoryError(MsgHistoryFailed),
                              download |-> scan.download]
                     ELSE IF scan.kind = "return"
                        THEN [result |-> scan.result, download |-> scan.download]
                     ELSE [result |-> HistoryStatusResult(task_history),
                           download |-> scan.download]
    ELSE IF resp.status_code = 404
        THEN [result |-> HistoryError(MsgNotFound), download |-> NoDownload(fs)]
    ELSE [result |-> HistoryError(MsgHistoryHttp), download |-> NoDownload(fs)]

\* a resolver without the 404 branch: every status other than 200 is answered
\* with the message of lines 610-615
CheckTaskHistoryNo404(task_id, resp, dl, fs) ==
    IF resp.raises
        THEN [result |-> HistoryError(MsgHistoryFailed), download |-> NoDownload(fs)]
    ELSE IF resp.status_code = 200
        THEN IF ~Has(resp.body, task_id)
               THEN [result |-> HistoryError(MsgHistoryFailed),
                     download |-> NoDownload(fs)]
               ELSE
                 LET task_history == resp.body[task_id]
                     scan == IF Has(task_history, "outputs")
                                THEN ScanOutputs(task_history.outputs, 1, dl, fs)
                                ELSE [kind |-> "none", download |-> NoDownload(fs)]
                 IN  IF scan.kind = "raised"
                        THEN [result |-> HistoryError(MsgHistoryFailed),
                              download |-> scan.download]
                     ELSE IF scan.kind = "return"
                        THEN [result |-> scan.result, download |-> scan.download]
                     ELSE [result |-> HistoryStatusResult(task_history),
                           download |-> scan.download]
    ELSE [result |-> HistoryError(MsgHistoryHttp), download |-> NoDownload(fs)]

\* _check_task_history: the result dict, the download it made and the local
\* files afterwards.  resp is the answer of GET /history/{task_id}; an id that
\* the 200 body does not hold leaves task_history unbound, which the outer
\* except turns into the generic error, as it does a raising download
CheckTaskHistory(task_id, resp, dl, fs) ==
    IF resp.raises
        THEN [result |-> HistoryError(MsgHistoryFailed), download |-> NoDownload(fs)]
    ELSE IF resp.status_code = 200
        THEN IF ~Has(resp.body, task_id)
               THEN [result |-> HistoryError(MsgHistoryFailed),
                     download |-> NoDownload(fs)]
               ELSE
                 LET task_history == resp.body[task_id]
                     scan == IF Has(task_history, "outputs")
                                THEN ScanOutputs(task_history.outputs, 1, dl, fs)
                                ELSE [kind |-> "none", download |-> NoDownload(fs)]
                 IN  IF scan.kind = "raised"
                        THEN [result |-> HistoryError(MsgHistoryFailed),
                              download |-> scan.download]
                     ELSE IF scan.kind = "return"
                        THEN [result |-> scan.result, download |-> scan.download]
                     ELSE [result |-> HistoryStatusResult(task_history),
                           download |-> scan.download]
    ELSE IF resp.status_code = 404
        THEN [result |-> HistoryError(MsgNotFound), download |-> NoDownload(fs)]
    ELSE [result |-> HistoryError(MsgHistoryHttp), download |-> NoDownload(fs)]

\* ------------------------------------------- answers of the remote engine
FailureKinds == {"exception", "http404", "http500"}

ArtifactKinds == {"gifs", "images", "animated"}

DoneKinds == ArtifactKinds \cup
             {"success_no_output", "failed", "interrupted", "not_completed", "no_status"}

HistoryKinds == DoneKinds \cup FailureKinds \cup {"missing"}

StatusSuccess == [completed |-> TRUE, status_str |-> "success"]

\* the execution record history_data[task_id] of a finished job
TaskHistoryOf(kind, workflow) ==
    LET base == [prompt |-> [workflow |-> workflow, extra |-> [client_id |-> "client"]]]
    IN  CASE kind = "gifs" ->
               base @@ [outputs |-> << [gifs |-> << [filename |-> "ComfyUI_00001"] >>] >>,
                        status |-> StatusSuccess]
          [] kind = "images" ->
               base @@ [outputs |-> << [images |-> << [filename |-> "ComfyUI_00001"] >>] >>,
                        status |-> StatusSuccess]
          [] kind = "animated" ->
               base @@ [outputs |-> << [images |-> << [filename |-> "ComfyUI_00001"] >>,
                                        animated |-> <<TRUE>>] >>,
                        status |-> StatusSuccess]
          [] kind = "success_no_output" ->
               base @@ [outputs |-> <<>>, status |-> StatusSuccess]
          [] kind = "failed" ->
               base @@ [status |-> [completed |-> TRUE, status_str |-> "error"]]
          [] kind = "interrupted" ->
               base @@ [status |-> [completed |-> TRUE, status_str |-> "interrupted"]]
          [] kind = "not_completed" ->
               base @@ [status |-> [completed |-> FALSE, status_str |-> "running"]]
          [] OTHER -> base

\* the answer of GET /history/{task_id}
HistoryResponse(kind, task_id, workflow) ==
    CASE kind = "exception" -> [raises |-> TRUE, status_code |-> 0, body |-> EmptyHash]
      [] kind = "http404" -> [raises |-> FALSE, status_code |-> 404, body |-> EmptyHash]
      [] kind = "http500" -> [raises |-> FALSE, status_code |-> 500, body |-> EmptyHash]
      [] kind = "missing" -> [raises |-> FALSE, status_code |-> 200, body |-> EmptyHash]
      [] OTHER -> [raises |-> FALSE, status_code |-> 200,
                   body |-> (task_id :> TaskHistoryOf(kind, workflow))]

\* the inputs of one resolver call: what the history endpoint answers and how
\* the artifact GET ends
ResolverInputs(kinds) ==
    {[kind |-> k, dl |-> d] : k \in kinds \ ArtifactKinds, d \in {"ok"}}
    \cup {[kind |-> k, dl |-> d] : k \in kinds \cap ArtifactKinds, d \in DownloadOutcomes}

\* an entry of queue_running / queue_pending: [number, prompt_id, workflow, ...]
QueueItem(task_id, workflow) == [id |-> task_id, workflow |-> workflow]

\* ------------------------------------------------- the tick, item by item
TerminalStatuses == {"completed", "error"}

\* a running loop that restarts processing_started at every tick
UpdateRunningRestart(ts, task, current_time) ==
    IF Has(ts, task.id)
        THEN LET t0 == DictUpdate(ts[task.id],
                                  [status |-> "processing", message |-> MsgProcessing])
                 t1 == DictUpdate(t0, [processing_started |-> current_time])
                 t2 == DictUpdate(t1, [processing_time |->
                                          current_time - t1.processing_started,
                                       last_updated |-> current_time])
             IN  HSet(ts, task.id, ExtractIntoExisting(t2, task))
        ELSE LET e == ExtractForNew(task)
             IN  HSet(ts, task.id,
                      [status |-> "processing", message |-> MsgProcessing,
                       processing_started |-> current_time, processing_time |-> 0,
                       last_updated |-> current_time, created_at |-> current_time,
                       prompt |-> e.prompt, model |-> e.model])

\* a running loop that updates the records it finds and creates none
UpdateRunningExistingOnly(ts, task, current_time) ==
    IF Has(ts, task.id)
        THEN LET t0 == DictUpdate(ts[task.id],
                                  [status |-> "processing", message |-> MsgProcessing])
                 t1 == IF Has(t0, "processing_started") THEN t0
                       ELSE DictUpdate(t0, [processing_started |-> current_time])
                 t2 == DictUpdate(t1, [processing_time |->
                                          current_time - t1.processing_started,
                                       last_updated |-> current_time])
             IN  HSet(ts, task.id, ExtractIntoExisting(t2, task))
        ELSE ts

\* lines 213-301: one entry of queue_running against the hash ts
UpdateRunning(ts, task, current_time) ==
    IF Has(ts, task.id)
        THEN LET t0 == DictUpdate(ts[task.id],
                                  [status |-> "processing", message |-> MsgProcessing])
                 t1 == IF Has(t0, "processing_started") THEN t0
                       ELSE DictUpdate(t0, [processing_started |-> current_time])
                 t2 == DictUpdate(t1, [processing_time |->
                                          current_time - t1.processing_started,
                                       last_updated |-> current_time])
             IN  HSet(ts, task.id, ExtractIntoExisting(t2, task))
        ELSE LET e == ExtractForNew(task)
             IN  HSet(ts, task.id,
                      [status |-> "processing", message |-> MsgProcessing,
                       processing_started |-> current_time, processing_time |-> 0,
                       last_updated |-> current_time, created_at |-> current_time,
                       prompt |-> e.prompt, model |-> e.model])

\* a pending loop that stores the 0-based index as the position
UpdatePendingZeroBased(ts, task, i, current_time) ==
    IF Has(ts, task.id)
        THEN LET t0 == DictUpdate(ts[task.id],
                                  [status |-> "pending", message |-> QueueMessage(i),
                                   queue_position |-> i])
                 t1 == IF Has(t0, "waiting_started") THEN t0
                       ELSE DictUpdate(t0, [waiting_started |-> current_time])
                 t2 == DictUpdate(t1, [waiting_time |-> current_time - t1.waiting_started,
                                       last_updated |-> current_time])
             IN  HSet(ts, task.id, ExtractIntoExisting(t2, task))
        ELSE LET e == ExtractForNew(task)
             IN  HSet(ts, task.id,
                      [status |-> "pending", message |-> QueueMessage(i),
                       queue_position |-> i,
                       waiting_started |-> current_time, waiting_time |-> 0,
                       last_updated |-> current_time, created_at |-> current_time,
                       prompt |-> e.prompt, model |-> e.model])

\* lines 305-395: entry number i (0-based) of queue_pending against the hash ts
UpdatePending(ts, task, i, current_time) ==
    IF Has(ts, task.id)
        THEN LET t0 == DictUpdate(ts[task.id],
                                  [status |-> "pending", message |-> QueueMessage(i + 1),
                                   queue_position |-> i + 1])
                 t1 == IF Has(t0, "waiting_started") THEN t0
                       ELSE DictUpdate(t0, [waiting_started |-> current_time])
                 t2 == DictUpdate(t1, [waiting_time |-> current_time - t1.waiting_started,
                                       last_updated |-> current_time])
             IN  HSet(ts, task.id, ExtractIntoExisting(t2, task))
        ELSE LET e == ExtractForNew(task)
             IN  HSet(ts, task.id,
                      [status |-> "pending", message |-> QueueMessage(i + 1),
                       queue_position |-> i + 1,
                       waiting_started |-> current_time, waiting_time |-> 0,
                       last_updated |-> current_time, created_at |-> current_time,
                       prompt |-> e.prompt, model |-> e.model])

RECURSIVE RunningLoop(_, _, _, _)
RunningLoop(ts, running_tasks_q, k, current_time) ==
    IF k > Len(running_tasks_q) THEN ts
    ELSE RunningLoop(UpdateRunning(ts, running_tasks_q[k], current_time),
                     running_tasks_q, k + 1, current_time)

RECURSIVE PendingLoop(_, _, _, _)
PendingLoop(ts, pending_tasks_q, k, current_time) ==
    IF k > Len(pending_tasks_q) THEN ts
    ELSE PendingLoop(UpdatePending(ts, pending_tasks_q[k], k - 1, current_time),
                     pending_tasks_q, k + 1, current_time)

\* a resolved record without completed_at
ResolvedRecordNoCompletedAt(task_data, history_result, current_time) ==
    DictUpdate(DictUpdate(task_data, history_result), [last_updated |-> current_time])

\* lines 415-420: the record the tick writes for a vanished job
ResolvedRecord(task_data, history_result, current_time) ==
    LET t0 == DictUpdate(DictUpdate(task_data, history_result),
                         [last_updated |-> current_time])
    IN  IF t0.status \in TerminalStatuses
            THEN DictUpdate(t0, [completed_at |-> current_time])
            ELSE t0

\* a tick that writes every resolved record back to tasks_status
StoreResolvedInPlace(st, task_id, record) ==
    [st EXCEPT !.tasks_status = HSet(st.tasks_status, task_id, record)]

\* lines 419-425: where the tick writes it; st holds the two hashes
StoreResolved(st, task_id, record) ==
    IF record.status \in TerminalStatuses
        THEN [st EXCEPT !.completed_tasks = HSet(st.completed_tasks, task_id, record),
                        !.tasks_status = HDel(st.tasks_status, task_id)]
        ELSE [st EXCEPT !.tasks_status = HSet(st.tasks_status, task_id, record)]

\* a scan that asks the history for every record that left the queue
NeedsHistoryAnyStatus(task_id, task_data, active_task_ids) ==
    task_id \notin active_task_ids

\* lines 403 and 410: the records the scan hands to the resolver
NeedsHistory(task_id, task_data, active_task_ids) ==
    /\ task_id \notin active_task_ids
    /\ task_data.status \notin TerminalStatuses

Perms(S) ==
    {o \in [1..Cardinality(S) -> S] : \A a, b \in 1..Cardinality(S) : a # b => o[a] # o[b]}

\* what the resolver was given and what it returned, kept per job id
ResolverLog(inp, r) ==
    [kind |-> inp.kind, result |-> r.result,
     download |-> [called |-> r.download.called, raised |-> r.download.raised,
                   requested |-> r.download.requested]]

\* lines 398-425: the loop over hgetall("tasks_status"); order lists the ids
\* that are not in active_task_ids and whose status is not terminal, in the
\* order the hash yields them; st holds the two hashes, the local files and
\* the log of the resolver calls
RECURSIVE ScanLoop(_, _, _, _, _, _, _)
ScanLoop(st, all_tasks, order, k, inputs, workflows, current_time) ==
    IF k > Len(order) THEN st
    ELSE
      LET task_id == order[k]
          resp == HistoryResponse(inputs[task_id].kind, task_id,
                                  Get(workflows, task_id, <<>>))
          r == CheckTaskHistory(task_id, resp, inputs[task_id].dl, st.files)
          record == ResolvedRecord(all_tasks[task_id], r.result, current_time)
          st1 == [st EXCEPT !.files = r.download.files,
                            !.resolved = HSet(st.resolved, task_id,
                                              ResolverLog(inputs[task_id], r))]
      IN  ScanLoop(StoreResolved(st1, task_id, record), all_tasks, order, k + 1,
                   inputs, workflows, current_time)

\* line 1177: seconds after which an active error record is relocated
ERROR_AGE == 3600

\* a sweep that deletes an old error record instead of relocating it
CleanupOneDrop(st, task_id, task_data, inp, workflows, current_time) ==
    IF Get(task_data, "status", "") = "error"
        THEN IF Has(task_data, "last_updated")
                /\ current_time - task_data.last_updated > ERROR_AGE
               THEN [st EXCEPT !.tasks_status = HDel(st.tasks_status, task_id)]
               ELSE st
    ELSE IF Get(task_data, "status", "") = "unknown"
        THEN LET resp == HistoryResponse(inp.kind, task_id, Get(workflows, task_id, <<>>))
                 r == CheckTaskHistory(task_id, resp, inp.dl, st.files)
                 st1 == [st EXCEPT !.files = r.download.files,
                                   !.resolved = HSet(st.resolved, task_id,
                                                     ResolverLog(inp, r))]
             IN  IF r.result.status \in TerminalStatuses
                    THEN [st1 EXCEPT
                            !.completed_tasks = HSet(st.completed_tasks, task_id, r.result),
                            !.tasks_status = HDel(st.tasks_status, task_id)]
                    ELSE st1
    ELSE st

\* a sweep that relocates an error record already at the age of one hour
CleanupOneAtAge(st, task_id, task_data, inp, workflows, current_time) ==
    IF Get(task_data, "status", "") = "error"
        THEN IF Has(task_data, "last_updated")
                /\ current_time - task_data.last_updated >= ERROR_AGE
               THEN [st EXCEPT
                       !.completed_tasks = HSet(st.completed_tasks, task_id, task_data),
                       !.tasks_status = HDel(st.tasks_status, task_id)]
               ELSE st
    ELSE IF Get(task_data, "status", "") = "unknown"
        THEN LET resp == HistoryResponse(inp.kind, task_id, Get(workflows, task_id, <<>>))
                 r == CheckTaskHistory(task_id, resp, inp.dl, st.files)
                 st1 == [st EXCEPT !.files = r.download.files,
                                   !.resolved = HSet(st.resolved, task_id,
                                                     ResolverLog(inp, r))]
             IN  IF r.result.status \in TerminalStatuses
                    THEN [st1 EXCEPT
                            !.completed_tasks = HSet(st.completed_tasks, task_id, r.result),
                            !.tasks_status = HDel(st.tasks_status, task_id)]
                    ELSE st1
    ELSE st

\* a sweep that relocates an unknown record whatever the resolver returns
CleanupOneMoveAny(st, task_id, task_data, inp, workflows, current_time) ==
    IF Get(task_data, "status", "") = "error"
        THEN IF Has(task_data, "last_updated")
                /\ current_time - task_data.last_updated > ERROR_AGE
               THEN [st EXCEPT
                       !.completed_tasks = HSet(st.completed_tasks, task_id, task_data),
                       !.tasks_status = HDel(st.tasks_status, task_id)]
               ELSE st
    ELSE IF Get(task_data, "status", "") = "unknown"
        THEN LET resp == HistoryResponse(inp.kind, task_id, Get(workflows, task_id, <<>>))
                 r == CheckTaskHistory(task_id, resp, inp.dl, st.files)
                 st1 == [st EXCEPT !.files = r.download.files,
                                   !.resolved = HSet(st.resolved, task_id,
                                                     ResolverLog(inp, r))]
             IN  [st1 EXCEPT
                    !.completed_tasks = HSet(st.completed_tasks, task_id, r.result),
                    !.tasks_status = HDel(st.tasks_status, task_id)]
    ELSE st

\* lines 1170-1190: one record of the sweep
CleanupOne(st, task_id, task_data, inp, workflows, current_time) ==
    IF Get(task_data, "status", "") = "error"
        THEN IF Has(task_data, "last_updated")
                /\ current_time - task_data.last_updated > ERROR_AGE
               THEN [st EXCEPT
                       !.completed_tasks = HSet(st.completed_tasks, task_id, task_data),
                       !.tasks_status = HDel(st.tasks_status, task_id)]
               ELSE st
    ELSE IF Get(task_data, "status", "") = "unknown"
        THEN LET resp == HistoryResponse(inp.kind, task_id, Get(workflows, task_id, <<>>))
                 r == CheckTaskHistory(task_id, resp, inp.dl, st.files)
                 st1 == [st EXCEPT !.files = r.download.files,
                                   !.resolved = HSet(st.resolved, task_id,
                                                     ResolverLog(inp, r))]
             IN  IF r.result.status \in TerminalStatuses
                    THEN [st1 EXCEPT
                            !.completed_tasks = HSet(st.completed_tasks, task_id, r.result),
                            !.tasks_status = HDel(st.tasks_status, task_id)]
                    ELSE st1
    ELSE st

RECURSIVE CleanupLoop(_, _, _, _, _, _, _)
CleanupLoop(st, all_tasks, order, k, inputs, workflows, current_time) ==
    IF k > Len(order) THEN st
    ELSE CleanupLoop(CleanupOne(st, order[k], all_tasks[order[k]], inputs[order[k]],
                                workflows, current_time),
                     all_tasks, order, k + 1, inputs, workflows, current_time)

\* ------------------------------------------------------------ submission
\* line 879: random.randint(1, 2**32 - 1), of which the first MaxSeed values
Seeds == 1..MaxSeed

\* the calls of generate_video: a single segment, a segment of a batch, and
\* a model name without a workflow file
SubmitCalls ==
    { [prompt |-> <<"cat">>, model |-> <<"wan">>, batch_id |-> None],
      [prompt |-> <<"cat">>, model |-> <<"flux">>, batch_id |-> <<"batch-1">>],
      [prompt |-> <<"cat">>, model |-> <<"sdxl">>, batch_id |-> None],
      [prompt |-> <<"cat">>, model |-> <<"nofile">>, batch_id |-> None] }

SubmitResponses == {"ok", "connection_error", "http_error", "invalid_json", "no_prompt_id"}

\* lines 940-953 and 988-1002: the error_code of a failed generate_video;
\* requests and json exceptions are not ComfyUIError and keep the default
SubmitErrorCode(response) ==
    IF response = "http_error" THEN "COMFYUI_HTTP_ERROR"
    ELSE IF response = "no_prompt_id" THEN "COMFYUI_INVALID_RESPONSE"
    ELSE "VIDEO_GENERATION_FAILED"

\* a new record that does not keep the seed
NewTaskDataNoSeed(prompt, model, seed, batch_id, current_time) ==
    LET task_data == [status |-> "pending", message |-> MsgInitialized,
                      prompt |-> prompt, model |-> model,
                      created_at |-> current_time]
    IN  IF batch_id # None
            THEN DictUpdate(task_data, [batch_id |-> batch_id, segment_index |-> 0,
                                        total_segments |-> 1, content |-> <<"story">>])
            ELSE task_data

\* lines 959-973: the record of a new job
NewTaskData(prompt, model, seed, batch_id, current_time) ==
    LET task_data == [status |-> "pending", message |-> MsgInitialized,
                      prompt |-> prompt, model |-> model,
                      created_at |-> current_time, seed |-> seed]
    IN  IF batch_id # None
            THEN DictUpdate(task_data, [batch_id |-> batch_id, segment_index |-> 0,
                                        total_segments |-> 1, content |-> <<"story">>])
            ELSE task_data

\* a submission that stores the record before it looks at the answer
GenerateVideoEffectStoreFirst(st, prompt, model, seed, batch_id, response, prompt_id, current_time) ==
    IF model \notin WorkflowNames
        THEN [tasks_status |-> st.tasks_status, pending_tasks |-> st.pending_tasks,
              ret |-> [success |-> FALSE, error_code |-> "VIDEO_GENERATION_FAILED"]]
    ELSE LET stored == HSet(st.tasks_status, prompt_id,
                            NewTaskData(prompt, model, seed, batch_id, current_time))
         IN  IF response # "ok"
                THEN [tasks_status |-> stored,
                      pending_tasks |-> st.pending_tasks \cup {prompt_id},
                      ret |-> [success |-> FALSE,
                               error_code |-> SubmitErrorCode(response)]]
                ELSE [tasks_status |-> stored,
                      pending_tasks |-> st.pending_tasks \cup {prompt_id},
                      ret |-> [success |-> TRUE, status |-> "pending",
                               prompt_id |-> prompt_id, seed |-> seed]]

\* generate_video from the POST on: st holds tasks_status and pending_tasks,
\* prompt_id is the id the engine assigned when response is "ok"
GenerateVideoEffect(st, prompt, model, seed, batch_id, response, prompt_id, current_time) ==
    IF model \notin WorkflowNames
        THEN [tasks_status |-> st.tasks_status, pending_tasks |-> st.pending_tasks,
              ret |-> [success |-> FALSE, error_code |-> "VIDEO_GENERATION_FAILED"]]
    ELSE IF response # "ok"
        THEN [tasks_status |-> st.tasks_status, pending_tasks |-> st.pending_tasks,
              ret |-> [success |-> FALSE, error_code |-> SubmitErrorCode(response)]]
    ELSE [tasks_status |-> HSet(st.tasks_status, prompt_id,
                                NewTaskData(prompt, model, seed, batch_id, current_time)),
          pending_tasks |-> st.pending_tasks \cup {prompt_id},
          ret |-> [success |-> TRUE, status |-> "pending", prompt_id |-> prompt_id,
                   seed |-> seed]]

\* a listing that reads the active partition only
GetAllTasksStatusActiveOnly(ts, ct) == ts

\* get_all_tasks_status (lines 1195-1244) and GET /api/task-status
\* (app/routes.py lines 654-687): the records of tasks_status, then those of
\* completed_tasks over them
GetAllTasksStatus(ts, ct) ==
    [j \in DOMAIN ts \cup DOMAIN ct |-> IF j \in DOMAIN ct THEN ct[j] ELSE ts[j]]

\* a lookup that reads the active partition first
WaitForCompletionActiveFirst(ts, ct, prompt_id) ==
    IF Has(ts, prompt_id) THEN ts[prompt_id]
    ELSE IF Has(ct, prompt_id) THEN ct[prompt_id]
    ELSE [status |-> "unknown", message |-> "task status unknown"]

\* _wait_for_completion: the terminal record, else the active one, else unknown
WaitForCompletion(ts, ct, prompt_id) ==
    IF Has(ct, prompt_id) THEN ct[prompt_id]
    ELSE IF Has(ts, prompt_id) THEN ts[prompt_id]
    ELSE [status |-> "unknown", message |-> "task status unknown"]

\* ------------------------------------------------------------------ state
VARIABLES
    tasks_status,      \* redis hash: the active partition, job id -> record
    completed_tasks,   \* redis hash: the terminal partition, job id -> record
    pending_tasks,     \* redis set: the pending index
    running_tasks,     \* redis set: the running index
    files,             \* local path -> "absent" | "partial" | "complete"
    now,               \* time.time()
    queue_running,     \* remote engine: ids of queue_running, in order
    queue_pending,     \* remote engine: ids of queue_pending, in order
    finished,          \* remote engine: ids whose execution ended
    workflows,         \* remote engine: job id -> the graph it was given
    last,              \* the call made by the last step: its inputs and results
    tick_call,         \* locals of the _update_queue_status call under way
    gc_call,           \* locals of the _cleanup_old_tasks call under way
    gen_call,          \* locals of the generate_video call under way
    del_call,          \* locals of the delete_task call under way
    twin_call          \* locals of the tick under way in the second updater

vars == <<tasks_status, completed_tasks, pending_tasks, running_tasks, files, now,
          queue_running, queue_pending, finished, workflows, last,
          tick_call, gc_call, gen_call, del_call, twin_call>>

callVars == <<tick_call, gc_call, gen_call, del_call, twin_call>>

IdleLoop == [pc |-> "idle", running_q |-> <<>>, pending_q |-> <<>>, current_time |-> 0,
             all_tasks |-> EmptyHash, todo |-> {}, move_id |-> ""]

IdleGenerate == [pc |-> "idle", call |-> None, seed |-> 0, prompt_id |-> ""]

IdleDelete == [pc |-> "idle", task_id |-> ""]

storeVars == <<tasks_status, completed_tasks, pending_tasks, running_tasks, files>>

remoteVars == <<queue_running, queue_pending, finished, workflows>>

Init ==
    /\ tasks_status = EmptyHash
    /\ completed_tasks = EmptyHash
    /\ pending_tasks = {}
    /\ running_tasks = {}
    /\ files = [p \in LocalPaths |-> "absent"]
    /\ now = 0
    /\ queue_running = <<>>
    /\ queue_pending = <<>>
    /\ finished = {}
    /\ workflows = EmptyHash
    /\ last = [op |-> "init"]
    /\ tick_call = IdleLoop
    /\ gc_call = IdleLoop
    /\ gen_call = IdleGenerate
    /\ del_call = IdleDelete
    /\ twin_call = IdleLoop

SeqIds(q) == {q[k] : k \in 1..Len(q)}

\* GET /queue: the entries of a list of the snapshot
QueueItems(q) == [k \in 1..Len(q) |-> QueueItem(q[k], workflows[q[k]])]

\* what GET /history/{task_id} can answer for a job, among kinds
KindsFor(task_id, kinds) ==
    IF task_id \in finished THEN kinds
    ELSE kinds \cap (FailureKinds \cup {"missing"})

InputsFor(ids, kinds) ==
    {f \in [ids -> ResolverInputs(kinds)] : \A j \in ids : f[j].kind \in KindsFor(j, kinds)}

\* ---------------------------------------------------------------- actions
\* generate_video (lines 840-1002); prompt_id is the id the engine assigns
\* when it accepts the job
\* the calls of generate_video together with the seed of line 879 and what the
\* engine does with the POST.  A call whose workflow file is missing never
\* posts, and lines 933-953 do not look at the call or at the seed, so the
\* refused submissions are those of the wan call, with one seed.  The sdxl
\* graph is there for its node types, and one seed is drawn for it.
SubmitAttempts(calls, seeds, responses) ==
    {a \in [call : calls, seed : seeds, response : responses] :
        \/ /\ a.call.model \in WorkflowNames
           /\ a.response = "ok"
           /\ a.call.model = <<"sdxl">> => a.seed = 1
        \/ /\ a.call.model = <<"wan">>
           /\ a.seed = 1
        \/ /\ a.call.model \notin WorkflowNames
           /\ a.seed = 1
           /\ a.response = "ok"}

GenerateVideoIn(ids, calls, seeds, responses) ==
    \E a \in SubmitAttempts(calls, seeds, responses) :
      \E prompt_id \in IF a.call.model \in WorkflowNames /\ a.response = "ok"
                          THEN ids \ DOMAIN workflows ELSE {""} :
        LET call == a.call
            seed == a.seed
            response == a.response
            prompt == call.prompt
            model == call.model
            batch_id == call.batch_id
            accepted == model \in WorkflowNames /\ response = "ok"
            e == GenerateVideoEffect([tasks_status |-> tasks_status,
                                      pending_tasks |-> pending_tasks],
                                     prompt, model, seed, batch_id, response,
                                     prompt_id, now)
        IN  /\ tasks_status' = e.tasks_status
            /\ pending_tasks' = e.pending_tasks
            /\ IF accepted
                  THEN /\ queue_pending' = Append(queue_pending, prompt_id)
                       /\ workflows' = HSet(workflows, prompt_id,
                                            SubstituteWorkflow(LoadWorkflow(model),
                                                               prompt, seed))
                  ELSE UNCHANGED <<queue_pending, workflows>>
            /\ last' = [op |-> "generate_video", response |-> response,
                        call |-> call, ret |-> e.ret]
            /\ UNCHANGED <<completed_tasks, running_tasks, files, now,
                           queue_running, finished, callVars>>

\* the ids of the entries of a list of the snapshot
ItemIds(q) == {q[k].id : k \in 1..Len(q)}

\* an index that is added to without being emptied first
RebuildIndexNoDelete(index, q) == index \cup ItemIds(q)

\* lines 212-218 and 304-310: delete("running_tasks") or
\* delete("pending_tasks"), then one sadd for every entry of the list
RebuildIndex(index, q) == ItemIds(q)

\* a fetch that reads the lists of any answer: a refusal has none
FetchQueueNoStatusCheck(queue_response, running_q, pending_q) ==
    IF queue_response = "ok"
        THEN [fetched |-> TRUE, running_q |-> running_q, pending_q |-> pending_q]
        ELSE [fetched |-> TRUE, running_q |-> <<>>, pending_q |-> <<>>]

\* lines 195-206: GET /queue; the lists are read when the answer is 200 and
\* parses, an exception or another status ends the tick (lines 426-434)
FetchQueue(queue_response, running_q, pending_q) ==
    IF queue_response = "ok"
        THEN [fetched |-> TRUE, running_q |-> running_q, pending_q |-> pending_q]
        ELSE [fetched |-> FALSE, running_q |-> <<>>, pending_q |-> <<>>]

\* _update_queue_status (lines 189-434) against the queue the engine holds;
\* fetched notes whether GET /queue answered 200 with a snapshot
UpdateQueueStatusIn(kinds) ==
    \E queue_response \in {"ok", "http_error", "exception"} :
      LET snap == FetchQueue(queue_response, QueueItems(queue_running),
                             QueueItems(queue_pending))
      IN  IF ~snap.fetched
          THEN /\ last' = [op |-> "tick", fetched |-> FALSE, resolved |-> EmptyHash]
               /\ UNCHANGED <<storeVars, now, remoteVars, callVars>>
          ELSE
            LET running_q == snap.running_q
                pending_q == snap.pending_q
                active_task_ids == ItemIds(running_q) \cup ItemIds(pending_q)
                ts1 == RunningLoop(tasks_status, running_q, 1, now)
                ts2 == PendingLoop(ts1, pending_q, 1, now)
                todo == {j \in DOMAIN ts2 : NeedsHistory(j, ts2[j], active_task_ids)}
            IN  \E order \in Perms(todo), inputs \in InputsFor(todo, kinds) :
                  LET st == ScanLoop([tasks_status |-> ts2,
                                      completed_tasks |-> completed_tasks,
                                      files |-> files, resolved |-> EmptyHash],
                                     ts2, order, 1, inputs, workflows, now)
                  IN  /\ tasks_status' = st.tasks_status
                      /\ completed_tasks' = st.completed_tasks
                      /\ files' = st.files
                      /\ running_tasks' = RebuildIndex(running_tasks, running_q)
                      /\ pending_tasks' = RebuildIndex(pending_tasks, pending_q)
                      /\ last' = [op |-> "tick", fetched |-> queue_response = "ok",
                                  resolved |-> st.resolved]
                      /\ UNCHANGED <<now, remoteVars, callVars>>

\* _cleanup_old_tasks (lines 1163-1193)
CleanupOldTasksIn(kinds) ==
    LET all_tasks == tasks_status
        unknown == {j \in DOMAIN all_tasks : all_tasks[j].status = "unknown"}
    IN  \E order \in Perms(DOMAIN all_tasks), inputs \in InputsFor(unknown, kinds) :
          LET full == [j \in DOMAIN all_tasks |->
                          IF j \in unknown THEN inputs[j]
                          ELSE [kind |-> "missing", dl |-> "ok"]]
              st == CleanupLoop([tasks_status |-> tasks_status,
                                 completed_tasks |-> completed_tasks,
                                 files |-> files, resolved |-> EmptyHash],
                                all_tasks, order, 1, full, workflows, now)
          IN  /\ tasks_status' = st.tasks_status
              /\ completed_tasks' = st.completed_tasks
              /\ files' = st.files
              /\ last' = [op |-> "cleanup", resolved |-> st.resolved]
              /\ UNCHANGED <<pending_tasks, running_tasks, now, remoteVars, callVars>>

\* a delete_task that removes the id from the active partition only
DeleteTaskInActiveOnly(ids) ==
    \E task_id \in ids :
        /\ tasks_status' = HDel(tasks_status, task_id)
        /\ last' = [op |-> "delete_task", task_id |-> task_id,
                    existed |-> Has(tasks_status, task_id) \/ Has(completed_tasks, task_id)]
        /\ UNCHANGED <<completed_tasks, pending_tasks, running_tasks, files, now,
                       remoteVars, callVars>>

\* delete_task (app/routes.py lines 723-745); existed notes whether the id
\* had a record
DeleteTaskIn(ids) ==
    \E task_id \in ids :
        /\ tasks_status' = HDel(tasks_status, task_id)
        /\ completed_tasks' = HDel(completed_tasks, task_id)
        /\ last' = [op |-> "delete_task", task_id |-> task_id,
                    existed |-> Has(tasks_status, task_id) \/ Has(completed_tasks, task_id)]
        /\ UNCHANGED <<pending_tasks, running_tasks, files, now, remoteVars, callVars>>

\* the engine starts the job at the head of its queue
RemoteStart ==
    /\ queue_pending # <<>>
    /\ queue_running = <<>>
    /\ queue_running' = <<Head(queue_pending)>>
    /\ queue_pending' = Tail(queue_pending)
    /\ last' = [op |-> "remote"]
    /\ UNCHANGED <<storeVars, now, finished, workflows, callVars>>

\* the engine ends the running job and files it in its history
RemoteFinish ==
    /\ queue_running # <<>>
    /\ finished' = finished \cup {Head(queue_running)}
    /\ queue_running' = Tail(queue_running)
    /\ last' = [op |-> "remote"]
    /\ UNCHANGED <<storeVars, now, queue_pending, workflows, callVars>>

\* another client of the engine queues a job of its own
ForeignSubmitIn(ids, graphs) ==
    \E prompt_id \in ids \ DOMAIN workflows, workflow \in graphs :
        /\ queue_pending' = Append(queue_pending, prompt_id)
        /\ workflows' = HSet(workflows, prompt_id, workflow)
        /\ last' = [op |-> "remote"]
        /\ UNCHANGED <<storeVars, now, queue_running, finished, callVars>>

\* time passes
Advance ==
    /\ now < MaxTime
    /\ now' = now + 1
    /\ last' = [op |-> "clock"]
    /\ UNCHANGED <<storeVars, remoteVars, callVars>>

\* ------------------------------------------- one job, every kind of answer
GenerateVideo == GenerateVideoIn({"J1"}, SubmitCalls, Seeds, SubmitResponses)

UpdateQueueStatus == UpdateQueueStatusIn(HistoryKinds)

CleanupOldTasks == CleanupOldTasksIn(HistoryKinds)

DeleteTask == DeleteTaskIn({"J1"})

OtherWorkflow == SubstituteWorkflow(WanWorkflow, <<"other">>, 1)

ForeignSubmit == ForeignSubmitIn({"J1"}, {OtherWorkflow})

Next ==
    \/ GenerateVideo
    \/ UpdateQueueStatus
    \/ CleanupOldTasks
    \/ DeleteTask
    \/ RemoteStart
    \/ RemoteFinish
    \/ ForeignSubmit
    \/ Advance

Spec == Init /\ [][Next]_vars

\* --------------------------------------- two jobs, the main kinds of answer
PairKinds == {"gifs", "not_completed", "no_status", "http404"}

PairCalls == {c \in SubmitCalls : c.model = <<"wan">>}

PairResponses == {"ok", "http_error"}

GenerateVideoPair == GenerateVideoIn(JobIds, PairCalls, {1}, PairResponses)

UpdateQueueStatusPair == UpdateQueueStatusIn(PairKinds)

CleanupOldTasksPair == CleanupOldTasksIn(PairKinds)

DeleteTaskPair == DeleteTaskIn(JobIds)

NextPair ==
    \/ GenerateVideoPair
    \/ UpdateQueueStatusPair
    \/ CleanupOldTasksPair
    \/ DeleteTaskPair
    \/ RemoteStart
    \/ RemoteFinish

SpecPair == Init /\ [][NextPair]_vars

\* ------------------------------------------------- the calls step by step
\* The request handlers run in threads of their own while the updater thread
\* runs the tick and the sweep one after the other; between two redis
\* commands or remote calls of one of them the others may run.
ConcKinds == {"gifs", "not_completed", "no_status", "http404", "missing"}

ConcCalls == {c \in SubmitCalls : c.model = <<"wan">>}

\* lines 192-206: GET /queue
TickFetchStep ==
    /\ tick_call.pc = "idle"
    /\ gc_call.pc = "idle"
    /\ tick_call' = [IdleLoop EXCEPT !.pc = "queues",
                                     !.running_q = QueueItems(queue_running),
                                     !.pending_q = QueueItems(queue_pending),
                                     !.current_time = now]
    /\ UNCHANGED <<storeVars, now, remoteVars, gc_call, gen_call, del_call, twin_call>>

TickFetch == TickFetchStep /\ UNCHANGED last

\* lines 211-395: the loops over queue_running and queue_pending
TickQueues ==
    /\ tick_call.pc = "queues"
    /\ tasks_status' = PendingLoop(RunningLoop(tasks_status, tick_call.running_q, 1,
                                               tick_call.current_time),
                                   tick_call.pending_q, 1, tick_call.current_time)
    /\ running_tasks' = {tick_call.running_q[k].id : k \in 1..Len(tick_call.running_q)}
    /\ pending_tasks' = {tick_call.pending_q[k].id : k \in 1..Len(tick_call.pending_q)}
    /\ tick_call' = [tick_call EXCEPT !.pc = "hgetall"]
    /\ UNCHANGED <<completed_tasks, files, now, remoteVars, last,
                   gc_call, gen_call, del_call, twin_call>>

\* lines 398-410: hgetall("tasks_status") and the ids left to resolve
TickHGetAll ==
    /\ tick_call.pc = "hgetall"
    /\ LET active_task_ids ==
               {tick_call.running_q[k].id : k \in 1..Len(tick_call.running_q)}
               \cup {tick_call.pending_q[k].id : k \in 1..Len(tick_call.pending_q)}
       IN  tick_call' = [tick_call EXCEPT
                           !.pc = "scan",
                           !.all_tasks = tasks_status,
                           !.todo = {j \in DOMAIN tasks_status :
                                        NeedsHistory(j, tasks_status[j],
                                                     active_task_ids)}]
    /\ UNCHANGED <<storeVars, now, remoteVars, last, gc_call, gen_call, del_call, twin_call>>

\* lines 411-425 up to the first write: the resolver call and hset
TickResolve ==
    /\ tick_call.pc = "scan"
    /\ \E task_id \in tick_call.todo, inputs \in InputsFor(tick_call.todo, ConcKinds) :
         LET resp == HistoryResponse(inputs[task_id].kind, task_id,
                                     Get(workflows, task_id, <<>>))
             r == CheckTaskHistory(task_id, resp, inputs[task_id].dl, files)
             record == ResolvedRecord(tick_call.all_tasks[task_id], r.result,
                                      tick_call.current_time)
             st == StoreResolved([tasks_status |-> tasks_status,
                                  completed_tasks |-> completed_tasks],
                                 task_id, record)
             moved == task_id \notin DOMAIN st.tasks_status
         IN  /\ files' = r.download.files
             /\ completed_tasks' = st.completed_tasks
             /\ tasks_status' = IF moved THEN tasks_status ELSE st.tasks_status
             /\ tick_call' = [tick_call EXCEPT
                                !.pc = IF moved THEN "hdel" ELSE "scan",
                                !.move_id = IF moved THEN task_id ELSE "",
                                !.todo = tick_call.todo \ {task_id}]
    /\ UNCHANGED <<pending_tasks, running_tasks, now, remoteVars, last,
                   gc_call, gen_call, del_call, twin_call>>

\* line 422: hdel("tasks_status", task_id)
TickHDel ==
    /\ tick_call.pc = "hdel"
    /\ tasks_status' = HDel(tasks_status, tick_call.move_id)
    /\ tick_call' = [tick_call EXCEPT !.pc = "scan", !.move_id = ""]
    /\ UNCHANGED <<completed_tasks, pending_tasks, running_tasks, files, now,
                   remoteVars, last, gc_call, gen_call, del_call, twin_call>>

\* line 430: the loop is over
TickReturn ==
    /\ tick_call.pc = "scan"
    /\ tick_call.todo = {}
    /\ tick_call' = IdleLoop
    /\ UNCHANGED <<storeVars, now, remoteVars, last, gc_call, gen_call, del_call, twin_call>>

\* lines 1166-1169: hgetall("tasks_status") of the sweep
GcHGetAllStep ==
    /\ gc_call.pc = "idle"
    /\ tick_call.pc = "idle"
    /\ gc_call' = [IdleLoop EXCEPT !.pc = "scan", !.current_time = now,
                                   !.all_tasks = tasks_status,
                                   !.todo = DOMAIN tasks_status]
    /\ UNCHANGED <<storeVars, now, remoteVars, tick_call, gen_call, del_call, twin_call>>

GcHGetAll == GcHGetAllStep /\ UNCHANGED last

\* lines 1170-1188: one record of the sweep up to its hset
GcOne ==
    /\ gc_call.pc = "scan"
    /\ \E task_id \in gc_call.todo, inputs \in InputsFor(gc_call.todo, ConcKinds) :
         LET st == CleanupOne([tasks_status |-> gc_call.all_tasks,
                               completed_tasks |-> completed_tasks,
                               files |-> files, resolved |-> EmptyHash],
                              task_id, gc_call.all_tasks[task_id], inputs[task_id],
                              workflows, gc_call.current_time)
             moved == task_id \notin DOMAIN st.tasks_status
         IN  /\ files' = st.files
             /\ completed_tasks' = st.completed_tasks
             /\ gc_call' = [gc_call EXCEPT
                              !.pc = IF moved THEN "hdel" ELSE "scan",
                              !.move_id = IF moved THEN task_id ELSE "",
                              !.todo = gc_call.todo \ {task_id}]
    /\ UNCHANGED <<tasks_status, pending_tasks, running_tasks, now, remoteVars, last,
                   tick_call, gen_call, del_call, twin_call>>

\* lines 1179 and 1189: hdel("tasks_status", task_id)
GcHDel ==
    /\ gc_call.pc = "hdel"
    /\ tasks_status' = HDel(tasks_status, gc_call.move_id)
    /\ gc_call' = [gc_call EXCEPT !.pc = "scan", !.move_id = ""]
    /\ UNCHANGED <<completed_tasks, pending_tasks, running_tasks, files, now,
                   remoteVars, last, tick_call, gen_call, del_call, twin_call>>

GcReturn ==
    /\ gc_call.pc = "scan"
    /\ gc_call.todo = {}
    /\ gc_call' = IdleLoop
    /\ UNCHANGED <<storeVars, now, remoteVars, last, tick_call, gen_call, del_call, twin_call>>

\* lines 933-956: the POST; the engine queues the job and answers with its id
GenPost ==
    /\ gen_call.pc = "idle"
    /\ \E call \in ConcCalls, prompt_id \in {"J1"} \ DOMAIN workflows :
         /\ queue_pending' = Append(queue_pending, prompt_id)
         /\ workflows' = HSet(workflows, prompt_id,
                              SubstituteWorkflow(LoadWorkflow(call.model), call.prompt, 1))
         /\ gen_call' = [pc |-> "hset", call |-> call, seed |-> 1, prompt_id |-> prompt_id]
    /\ UNCHANGED <<storeVars, now, queue_running, finished, last,
                   tick_call, gc_call, del_call, twin_call>>

GenEffect ==
    GenerateVideoEffect([tasks_status |-> tasks_status, pending_tasks |-> pending_tasks],
                        gen_call.call.prompt, gen_call.call.model, gen_call.seed,
                        gen_call.call.batch_id, "ok", gen_call.prompt_id, now)

\* line 975: hset("tasks_status", prompt_id, ...)
GenHSet ==
    /\ gen_call.pc = "hset"
    /\ tasks_status' = GenEffect.tasks_status
    /\ gen_call' = [gen_call EXCEPT !.pc = "sadd"]
    /\ UNCHANGED <<completed_tasks, pending_tasks, running_tasks, files, now,
                   remoteVars, last, tick_call, gc_call, del_call, twin_call>>

\* line 978: sadd("pending_tasks", prompt_id) and the return
GenSAdd ==
    /\ gen_call.pc = "sadd"
    /\ pending_tasks' = GenEffect.pending_tasks
    /\ gen_call' = IdleGenerate
    /\ UNCHANGED <<tasks_status, completed_tasks, running_tasks, files, now,
                   remoteVars, last, tick_call, gc_call, del_call, twin_call>>

\* routes.py line 730: hdel('tasks_status', task_id)
DelActive ==
    /\ del_call.pc = "idle"
    /\ \E task_id \in {"J1"} :
         /\ tasks_status' = HDel(tasks_status, task_id)
         /\ del_call' = [pc |-> "completed", task_id |-> task_id]
    /\ UNCHANGED <<completed_tasks, pending_tasks, running_tasks, files, now,
                   remoteVars, last, tick_call, gc_call, gen_call, twin_call>>

\* routes.py line 733: hdel('completed_tasks', task_id)
DelCompleted ==
    /\ del_call.pc = "completed"
    /\ completed_tasks' = HDel(completed_tasks, del_call.task_id)
    /\ del_call' = IdleDelete
    /\ UNCHANGED <<tasks_status, pending_tasks, running_tasks, files, now,
                   remoteVars, last, tick_call, gc_call, gen_call, twin_call>>

\* GET /api/history/<task_id> (routes.py lines 483-496): the route answers
\* with what _wait_for_completion returns (lines 641-665)
GetHistoryApi ==
    /\ \E task_id \in {"J1"} :
         last' = [op |-> "get_history", task_id |-> task_id,
                  ret |-> WaitForCompletion(tasks_status, completed_tasks, task_id)]
    /\ UNCHANGED <<storeVars, now, remoteVars, callVars>>

NextConc ==
    \/ TickFetch
    \/ TickQueues
    \/ TickHGetAll
    \/ TickResolve
    \/ TickHDel
    \/ TickReturn
    \/ GcHGetAll
    \/ GcOne
    \/ GcHDel
    \/ GcReturn
    \/ GenPost
    \/ GenHSet
    \/ GenSAdd
    \/ DelActive
    \/ DelCompleted
    \/ GetHistoryApi
    \/ RemoteStart
    \/ RemoteFinish

SpecConc == Init /\ [][NextConc]_vars

\* the answers of the history endpoint in the small specifications below
TwinKinds == {"not_completed", "http404"}

\* ------------------------------------------------- jobs of other clients
\* The engine serves other clients too (its own web page, for one): GET /queue
\* lists their jobs with their graphs, and the tick creates a record for
\* every listed id that has none (lines 269-301 and 363-395).

\* a graph as the engine's page builds it: the positive and the negative
\* text node, and the sampler that refers to them
TwoTextWorkflow ==
    << [id |-> "1", class_type |-> "CLIPTextEncode",
        inputs |-> [text |-> <<"cat">>]],
       [id |-> "2", class_type |-> "CLIPTextEncode",
        inputs |-> [text |-> <<"blurry">>]],
       [id |-> "3", class_type |-> "KSampler",
        inputs |-> [seed |-> 1, positive |-> <<"1", 0>>, negative |-> <<"2", 0>>]] >>

NextForeign ==
    \/ ForeignSubmitIn(JobIds, {TwoTextWorkflow, OtherWorkflow})
    \/ UpdateQueueStatusIn(TwinKinds)
    \/ DeleteTaskIn(JobIds)
    \/ RemoteStart
    \/ RemoteFinish

SpecForeign == Init /\ [][NextForeign]_vars

\* ------------------------------------------------ any snapshot of the queue
\* The two lists of GET /queue are read as they come (lines 205-206): nothing
\* in the tick compares the ids of one list with the other's or with
\* themselves.
MaxListed == 2

\* the lists of up to n ids an answer may carry
IdLists(n) == UNION {[1..m -> JobIds] : m \in 0..n}

AnyItems(ids) == [k \in 1..Len(ids) |-> QueueItem(ids[k], OtherWorkflow)]

\* the number of entries of q with the id j
Listed(q, j) == Cardinality({k \in 1..Len(q) : q[k].id = j})

\* the hset commands of one tick on the record of j: one for every entry of
\* the running list (line 267 or 301), one for every entry of the pending
\* list (line 361 or 395) and one for a record the scan resolves (line 421
\* or 425)
HSetCount(running_q, pending_q, todo, j) ==
    Listed(running_q, j) + Listed(pending_q, j) + (IF j \in todo THEN 1 ELSE 0)

\* _update_queue_status (lines 189-434) on an answer with any two lists
UpdateQueueStatusAny ==
    \E running_ids \in IdLists(1), pending_ids \in IdLists(MaxListed) :
      LET running_q == AnyItems(running_ids)
          pending_q == AnyItems(pending_ids)
          active_task_ids == ItemIds(running_q) \cup ItemIds(pending_q)
          ts1 == RunningLoop(tasks_status, running_q, 1, now)
          ts2 == PendingLoop(ts1, pending_q, 1, now)
          todo == {j \in DOMAIN ts2 : NeedsHistory(j, ts2[j], active_task_ids)}
      IN  \E order \in Perms(todo), inputs \in InputsFor(todo, TwinKinds) :
            LET st == ScanLoop([tasks_status |-> ts2,
                                completed_tasks |-> completed_tasks,
                                files |-> files, resolved |-> EmptyHash],
                               ts2, order, 1, inputs, workflows, now)
            IN  /\ tasks_status' = st.tasks_status
                /\ completed_tasks' = st.completed_tasks
                /\ files' = st.files
                /\ running_tasks' = RebuildIndex(running_tasks, running_q)
                /\ pending_tasks' = RebuildIndex(pending_tasks, pending_q)
                /\ last' = [op |-> "tick", fetched |-> TRUE, resolved |-> st.resolved,
                            hsets |-> [j \in JobIds |->
                                          HSetCount(running_q, pending_q, todo, j)]]
                /\ UNCHANGED <<now, remoteVars, callVars>>

NextAny ==
    \/ UpdateQueueStatusAny
    \/ DeleteTaskIn(JobIds)

SpecAny == Init /\ [][NextAny]_vars

\* --------------------------------------------------------- two updaters
\* run.py calls create_app() and then app.run(debug=True, use_reloader=True).
\* create_app() starts the updater thread in the process that was launched
\* (app/__init__.py lines 43-44); the reloader then runs the script again in
\* a child process, where create_app() starts a second updater thread.  Each
\* thread runs its ticks one after the other, and both tick against the same
\* redis store and the same engine.

\* lines 192-206 in the second updater: GET /queue
TwinFetch ==
    /\ twin_call.pc = "idle"
    /\ twin_call' = [IdleLoop EXCEPT !.pc = "queues",
                                     !.running_q = QueueItems(queue_running),
                                     !.pending_q = QueueItems(queue_pending),
                                     !.current_time = now]
    /\ UNCHANGED <<storeVars, now, remoteVars, last, tick_call, gc_call, gen_call,
                   del_call>>

\* lines 211-430 in the second updater: the loops over the snapshot and the
\* scan, up to the return
TwinRun ==
    /\ twin_call.pc = "queues"
    /\ LET running_ids == {twin_call.running_q[k].id : k \in 1..Len(twin_call.running_q)}
           pending_ids == {twin_call.pending_q[k].id : k \in 1..Len(twin_call.pending_q)}
           ts1 == RunningLoop(tasks_status, twin_call.running_q, 1,
                              twin_call.current_time)
           ts2 == PendingLoop(ts1, twin_call.pending_q, 1, twin_call.current_time)
           todo == {j \in DOMAIN ts2 :
                       NeedsHistory(j, ts2[j], running_ids \cup pending_ids)}
       IN  \E order \in Perms(todo), inputs \in InputsFor(todo, TwinKinds) :
             LET st == ScanLoop([tasks_status |-> ts2,
                                 completed_tasks |-> completed_tasks,
                                 files |-> files, resolved |-> EmptyHash],
                                ts2, order, 1, inputs, workflows,
                                twin_call.current_time)
             IN  /\ tasks_status' = st.tasks_status
                 /\ completed_tasks' = st.completed_tasks
                 /\ files' = st.files
                 /\ running_tasks' = running_ids
                 /\ pending_tasks' = pending_ids
    /\ twin_call' = IdleLoop
    /\ UNCHANGED <<now, remoteVars, last, tick_call, gc_call, gen_call, del_call>>

NextTwin ==
    \/ TickFetch
    \/ TickQueues
    \/ TickHGetAll
    \/ TickResolve
    \/ TickHDel
    \/ TickReturn
    \/ TwinFetch
    \/ TwinRun
    \/ GenPost
    \/ GenHSet
    \/ GenSAdd
    \/ RemoteStart
    \/ RemoteFinish

SpecTwin == Init /\ [][NextTwin]_vars

\* ------------------------------------------- the store fails during a cycle
\* A redis command of the tick or of the sweep raises (the store is down or
\* the connection drops); the exception leaves the loops and is caught and
\* logged by the handler of lines 432-434 or 1192-1193.  The cycles run one
\* at a time here and nothing else runs while one is under way; last keeps
\* the two hashes as they were when the cycle began.
Quiet == tick_call.pc = "idle" /\ gc_call.pc = "idle" /\ gen_call.pc = "idle"

CycleBegin(cycle) ==
    [op |-> "cycle", cycle |-> cycle,
     tasks_status |-> tasks_status, completed_tasks |-> completed_tasks]

TickFetchFail == TickFetchStep /\ last' = CycleBegin("tick")

GcHGetAllFail == GcHGetAllStep /\ last' = CycleBegin("gc")

\* the command the tick is about to send raises: delete("running_tasks") of
\* line 212, hgetall of line 398, the hset of line 421 or 425 after the
\* resolver has run, or the hdel of line 422
TickStoreError ==
    /\ last.op = "cycle"
    /\ \/ /\ tick_call.pc \in {"queues", "hgetall", "hdel"}
          /\ UNCHANGED files
       \/ /\ tick_call.pc = "scan"
          /\ \E task_id \in tick_call.todo, inputs \in InputsFor(tick_call.todo, ConcKinds) :
                LET resp == HistoryResponse(inputs[task_id].kind, task_id,
                                            Get(workflows, task_id, <<>>))
                    r == CheckTaskHistory(task_id, resp, inputs[task_id].dl, files)
                IN  files' = r.download.files
    /\ tick_call' = IdleLoop
    /\ last' = [last EXCEPT !.op = "store_error"]
    /\ UNCHANGED <<tasks_status, completed_tasks, pending_tasks, running_tasks, now,
                   remoteVars, gc_call, gen_call, del_call, twin_call>>

\* the hset of line 1178 or 1188 raises, after the resolver has run, or the
\* hdel of line 1179 or 1189 does
GcStoreError ==
    /\ last.op = "cycle"
    /\ \/ /\ gc_call.pc = "hdel"
          /\ UNCHANGED files
       \/ /\ gc_call.pc = "scan"
          /\ \E task_id \in gc_call.todo, inputs \in InputsFor(gc_call.todo, ConcKinds) :
                LET st == CleanupOne([tasks_status |-> gc_call.all_tasks,
                                      completed_tasks |-> completed_tasks,
                                      files |-> files, resolved |-> EmptyHash],
                                     task_id, gc_call.all_tasks[task_id],
                                     inputs[task_id], workflows, gc_call.current_time)
                IN  /\ task_id \notin DOMAIN st.tasks_status
                    /\ files' = st.files
    /\ gc_call' = IdleLoop
    /\ last' = [last EXCEPT !.op = "store_error"]
    /\ UNCHANGED <<tasks_status, completed_tasks, pending_tasks, running_tasks, now,
                   remoteVars, tick_call, gen_call, del_call, twin_call>>

GenerateVideoFail == Quiet /\ GenerateVideoIn({"J1"}, ConcCalls, {1}, {"ok"})

RemoteStartFail == Quiet /\ RemoteStart

RemoteFinishFail == Quiet /\ RemoteFinish

DeleteTaskFail == Quiet /\ DeleteTaskIn({"J1"})

AdvanceFail == Quiet /\ Advance

NextFail ==
    \/ TickFetchFail
    \/ TickQueues
    \/ TickHGetAll
    \/ TickResolve
    \/ TickHDel
    \/ TickReturn
    \/ TickStoreError
    \/ GcHGetAllFail
    \/ GcOne
    \/ GcHDel
    \/ GcReturn
    \/ GcStoreError
    \/ GenerateVideoFail
    \/ RemoteStartFail
    \/ RemoteFinishFail
    \/ DeleteTaskFail
    \/ AdvanceFail

SpecFail == Init /\ [][NextFail]_vars

\* ------------------------------------------ the sweep over a store it finds
\* The redis store outlives the process and the constructor does not clear
\* it: the sweep and the tick run here over the records a store may hold when
\* the program attaches to it, while hours and days pass.

\* the retention window of terminal records: 7 days, in seconds
RETENTION == 604800

SweepTimes == {0, ERROR_AGE, ERROR_AGE + 1, RETENTION + 1}

SweepKinds == {"success_no_output", "not_completed", "no_status", "http404"}

\* the text fields and the stamps of a record stored at time 0
SweepBase ==
    [prompt |-> <<"cat">>, model |-> <<"wan">>, seed |-> 1, created_at |-> 0]

SweepActiveRecords ==
    { SweepBase @@ [status |-> "error", message |-> MsgHistoryFailed, last_updated |-> 0],
      SweepBase @@ [status |-> "error", message |-> MsgHistoryFailed, last_updated |-> 1],
      SweepBase @@ [status |-> "error", message |-> MsgHistoryFailed],
      SweepBase @@ [status |-> "unknown", message |-> MsgUnknown, last_updated |-> 0],
      SweepBase @@ [status |-> "processing", message |-> MsgProcessing,
                    processing_started |-> 0, processing_time |-> 0,
                    last_updated |-> 0] }

SweepTerminalRecords ==
    { SweepBase @@ [status |-> "completed", message |-> MsgDone,
                    last_updated |-> 0, completed_at |-> 0],
      SweepBase @@ [status |-> "error", message |-> MsgNotFound,
                    last_updated |-> 0, completed_at |-> 0] }

\* the hashes over the ids of ids whose values are in records
HashesOver(ids, records) ==
    UNION {[S -> records] : S \in SUBSET ids}

InitSweep ==
    /\ tasks_status \in HashesOver(JobIds, SweepActiveRecords)
    /\ completed_tasks \in HashesOver(JobIds \ DOMAIN tasks_status, SweepTerminalRecords)
    /\ pending_tasks = {}
    /\ running_tasks = {}
    /\ files = [p \in LocalPaths |-> "absent"]
    /\ now = 0
    /\ queue_running = <<>>
    /\ queue_pending = <<>>
    /\ finished = JobIds
    /\ workflows = [j \in JobIds |-> SubstituteWorkflow(WanWorkflow, <<"cat">>, 1)]
    /\ last = [op |-> "init"]
    /\ tick_call = IdleLoop
    /\ gc_call = IdleLoop
    /\ gen_call = IdleGenerate
    /\ del_call = IdleDelete
    /\ twin_call = IdleLoop

CleanupOldTasksSweep == CleanupOldTasksIn(SweepKinds)

UpdateQueueStatusSweep == UpdateQueueStatusIn(SweepKinds)

DeleteTaskSweep == DeleteTaskIn(JobIds)

\* hours or days pass
AdvanceSweep ==
    /\ \E t \in SweepTimes : t > now
    /\ now' = MinOf({t \in SweepTimes : t > now})
    /\ last' = [op |-> "clock"]
    /\ UNCHANGED <<storeVars, remoteVars, callVars>>

NextSweep ==
    \/ CleanupOldTasksSweep
    \/ UpdateQueueStatusSweep
    \/ DeleteTaskSweep
    \/ AdvanceSweep

SpecSweep == InitSweep /\ [][NextSweep]_vars

\* ------------------------------------------------------------ properties
ActiveIds == DOMAIN tasks_status

TerminalIds == DOMAIN completed_tasks

TickDone == last.op = "tick" /\ last.fetched

\* C1: in every reachable state, the intermediate states of a relocation and
\* every interleaving with submission and delete_task included, no job id is
\* in both tasks_status and completed_tasks.
C1_NoIdInBothPartitions == ActiveIds \cap TerminalIds = {}

\* C2: every stored record with status pending or processing is in the active
\* partition and every stored record with status completed or error is in the
\* terminal partition.
C2_StatusMatchesPartition ==
    /\ \A j \in ActiveIds : tasks_status[j].status \notin {"completed", "error"}
    /\ \A j \in TerminalIds : completed_tasks[j].status \notin {"pending", "processing"}

C2_Witness ==
    /\ last.op = "cleanup"
    /\ \E j \in TerminalIds : j \in DOMAIN last.resolved

\* C3: when the engine accepts the job, generate_video leaves under the
\* returned id an active record with status pending, created_at, the returned
\* seed and the caller's prompt and model, and the id is in pending_tasks.
C3_SubmitStoresPendingRecord ==
    [][(last'.op = "generate_video" /\ last'.ret.success) =>
         LET id == last'.ret.prompt_id
         IN  /\ id \in DOMAIN tasks_status'
             /\ id \notin DOMAIN completed_tasks'
             /\ tasks_status'[id].status = "pending"
             /\ Get(tasks_status'[id], "created_at", -1) = now
             /\ Get(tasks_status'[id], "seed", -1) = last'.ret.seed
             /\ Get(tasks_status'[id], "prompt", None) = last'.call.prompt
             /\ Get(tasks_status'[id], "model", None) = last'.call.model
             /\ id \in pending_tasks']_vars

C3_Witness ==
    /\ last.op = "generate_video"
    /\ last.ret.success
    /\ last.call.batch_id # None
    /\ now > 0

\* C4: a submission that fails (connection failure, non-200 answer, body that
\* does not parse, answer without a job id) returns a failure and leaves both
\* partitions and the pending index as they were.
C4_FailedSubmitStoresNothing ==
    [][(/\ last'.op = "generate_video"
        /\ last'.call.model \in WorkflowNames
        /\ last'.response # "ok") =>
         /\ ~last'.ret.success
         /\ UNCHANGED <<tasks_status, completed_tasks, pending_tasks>>]_vars

C4_Witness ==
    /\ last.op = "generate_video"
    /\ last.call.model \in WorkflowNames
    /\ last.response = "invalid_json"
    /\ ActiveIds # {}

\* the codes _queue_prompt gives the classes of failure (lines 156-182)
ExpectedErrorCode(response) ==
    IF response = "connection_error" THEN "COMFYUI_CONNECTION_ERROR"
    ELSE IF response = "http_error" THEN "COMFYUI_HTTP_ERROR"
    ELSE "COMFYUI_INVALID_RESPONSE"

\* C5: every submission failure reaches the caller of generate_video with the
\* code of its class: connection error, HTTP error, or invalid response for a
\* body that does not parse and for an answer without a job id.
C5_ErrorCodeNamesClass ==
    (/\ last.op = "generate_video"
     /\ last.call.model \in WorkflowNames
     /\ last.response # "ok") =>
        /\ ~last.ret.success
        /\ last.ret.error_code = ExpectedErrorCode(last.response)

\* C6: after a tick, _wait_for_completion reports status processing for every
\* id its snapshot listed as running, whether the id had a record or not.
C6_RunningReportedProcessing ==
    [][(last'.op = "tick" /\ last'.fetched) =>
         \A j \in SeqIds(queue_running) :
            WaitForCompletion(tasks_status', completed_tasks', j).status = "processing"]_vars

C6_Witness ==
    /\ TickDone
    /\ \E j \in SeqIds(queue_running) :
          /\ j \in ActiveIds
          /\ ~Has(tasks_status[j], "seed")
          /\ tasks_status[j].created_at = now

\* C7: in a tick the resolver is called for every active record whose id the
\* snapshot does not list; a completed or error result moves the record to
\* completed_tasks with completed_at the time of the tick, any other result
\* is applied to the record, which stays in tasks_status.
C7_VanishedRecordsResolved ==
    [][(last'.op = "tick" /\ last'.fetched) =>
         \A j \in ActiveIds :
            (/\ j \notin SeqIds(queue_running) \cup SeqIds(queue_pending)
             /\ tasks_status[j].status \notin TerminalStatuses) =>
               /\ j \in DOMAIN last'.resolved
               /\ LET r == last'.resolved[j].result
                  IN  IF r.status \in TerminalStatuses
                        THEN /\ j \in DOMAIN completed_tasks'
                             /\ j \notin DOMAIN tasks_status'
                             /\ completed_tasks'[j].status = r.status
                             /\ Get(completed_tasks'[j], "completed_at", -1) = now
                        ELSE /\ j \in DOMAIN tasks_status'
                             /\ j \notin DOMAIN completed_tasks'
                             /\ \A k \in DOMAIN r : Has(tasks_status'[j], k)
                             /\ tasks_status'[j].status = r.status
                             /\ tasks_status'[j].message = r.message
                             /\ tasks_status'[j].prompt = r.prompt
                             /\ tasks_status'[j].model = r.model]_vars

C7_Witness ==
    /\ TickDone
    /\ \E a, b \in DOMAIN last.resolved :
          /\ last.resolved[a].result.status \in TerminalStatuses
          /\ a \in TerminalIds
          /\ last.resolved[b].result.status \notin TerminalStatuses
          /\ b \in ActiveIds

\* C8: when the history endpoint answers 404 for a vanished job, the resolver
\* returns the error "not found in history" and the tick moves the record to
\* completed_tasks with status error and that message.
C8_NotFoundMovesToTerminal ==
    [][(last'.op = "tick" /\ last'.fetched) =>
         \A j \in DOMAIN last'.resolved :
            last'.resolved[j].kind = "http404" =>
               /\ last'.resolved[j].result = [status |-> "error", message |-> MsgNotFound]
               /\ j \in DOMAIN completed_tasks'
               /\ j \notin DOMAIN tasks_status'
               /\ completed_tasks'[j].status = "error"
               /\ completed_tasks'[j].message = MsgNotFound]_vars

C8_Witness ==
    /\ TickDone
    /\ \E j \in DOMAIN last.resolved :
          /\ last.resolved[j].kind = "http404"
          /\ j \in TerminalIds

\* C9: when the resolver returns completed with an artifact for a vanished
\* job, the tick leaves the record in completed_tasks with status completed
\* and an output_path at which a local file exists.
C9_CompletedArtifactExists ==
    [][(last'.op = "tick" /\ last'.fetched) =>
         \A j \in DOMAIN last'.resolved :
            LET r == last'.resolved[j].result
            IN  (r.status = "completed" /\ Has(r, "output_path")) =>
                   /\ j \in DOMAIN completed_tasks'
                   /\ j \notin DOMAIN tasks_status'
                   /\ completed_tasks'[j].status = "completed"
                   /\ Get(completed_tasks'[j], "output_path", "") = r.output_path
                   /\ r.output_path \in LocalPaths
                   /\ files'[r.output_path] # "absent"]_vars

C9_Witness ==
    /\ TickDone
    /\ \E j \in DOMAIN last.resolved :
          /\ last.resolved[j].download.requested
          /\ Has(last.resolved[j].result, "output_path")
          /\ j \in TerminalIds

\* C10: when the download of a job's artifact fails inside the resolver, the
\* job is not made terminal: its record stays in tasks_status with a status
\* that is not terminal.
C10_FailedDownloadStaysActive ==
    [][(last'.op = "tick" /\ last'.fetched) =>
         \A j \in DOMAIN last'.resolved :
            last'.resolved[j].download.raised =>
               /\ j \in DOMAIN tasks_status'
               /\ tasks_status'[j].status \notin TerminalStatuses
               /\ j \notin DOMAIN completed_tasks']_vars

\* the resolver calls of a tick or sweep whose download fetched the artifact
Fetched(resolved) ==
    {j \in DOMAIN resolved : resolved[j].download.requested /\ ~resolved[j].download.raised}

\* C11: after a call of _download_video that succeeded, a second call for the
\* same local path returns without a GET: of the resolver calls of one tick
\* at most one fetches the file, and none does once the file is complete.
C11_SecondDownloadSkipsNetwork ==
    [][(last'.op \in {"tick", "cleanup"}) =>
         /\ Cardinality(Fetched(last'.resolved)) <= 1
         /\ \A p \in LocalPaths :
              /\ files[p] = "complete" =>
                    \A j \in DOMAIN last'.resolved : ~last'.resolved[j].download.requested
              /\ \A dl \in DownloadOutcomes :
                    LET first == DownloadVideo(p, "ok", files)
                        second == DownloadVideo(p, dl, first.files)
                    IN  /\ ~first.raised
                        /\ ~second.requested
                        /\ ~second.raised
                        /\ second.files = first.files]_vars

C11_Witness ==
    /\ TickDone
    /\ \E a, b \in DOMAIN last.resolved :
          /\ a # b
          /\ a \in Fetched(last.resolved)
          /\ last.resolved[b].download.called
          /\ ~last.resolved[b].download.requested
          /\ last.resolved[b].result.status = "completed"

\* the ids that have a record, and the record get_job reads
StoredIds == ActiveIds \cup TerminalIds

StartedFields == {"processing_started", "waiting_started"}

C13_PromptModelNeverEmptied ==
    [][(last'.op \in {"tick", "cleanup"}) =>
         \A j \in StoredIds \cap (DOMAIN tasks_status' \cup DOMAIN completed_tasks') :
            LET old == WaitForCompletion(tasks_status, completed_tasks, j)
                new == WaitForCompletion(tasks_status', completed_tasks', j)
            IN  \A k \in {"prompt", "model"} :
                   Get(old, k, None) # None => Get(new, k, None) # None]_vars

\* --------------------------------- the store fails during a sweep it finds
\* The sweep runs record by record over the stores of the section above, and
\* a redis command of it may raise; the one handler of lines 1192-1193 is
\* outside the loop over the records.
NextSweepFail ==
    \/ GcHGetAllFail
    \/ GcOne
    \/ GcHDel
    \/ GcReturn
    \/ GcStoreError
    \/ Quiet /\ AdvanceSweep

SpecSweepFail == InitSweep /\ [][NextSweepFail]_vars

\* ------------------------------------------------- the application's loop
\* create_app() starts one thread on update_task_status (app/__init__.py
\* lines 16-32 and 43-44): it builds VideoGenerator(start_updater=False) and
\* calls update_queue_status() every 20 seconds for as long as the process
\* lives.  No caller passes start_updater=True, so the loop of lines 624-639,
\* the only caller of _cleanup_old_tasks, is never started.
UpdateTaskStatus == UpdateQueueStatusIn(TwinKinds)

NextLive ==
    \/ UpdateTaskStatus
    \/ AdvanceSweep

\* the thread is never blocked for good and time passes
SpecLive ==
    InitSweep /\ [][NextLive]_vars /\ WF_vars(UpdateTaskStatus) /\ WF_vars(AdvanceSweep)

SweepDone == last.op = "cleanup"

\* the age of a terminal record: since completed_at, else since last_updated
TerminalAge(record, current_time) ==
    current_time - Get(record, "completed_at", Get(record, "last_updated", current_time))

\* C14: a terminal record older than the 7-day retention window, by its
\* completed_at or else its last_updated, is gone from the terminal partition
\* after a sweep of _cleanup_old_tasks.
C14_RetentionDeletes ==
    [][(last'.op = "cleanup") =>
          \A j \in DOMAIN completed_tasks :
              TerminalAge(completed_tasks[j], now) > RETENTION
                  => j \notin DOMAIN completed_tasks']_vars

\* an error record the sweep's first rule relocated: it is stored as it was,
\* with its last_updated, and unlike a record the tick resolved it has no
\* completed_at
RelocatedError(j) ==
    /\ j \in DOMAIN completed_tasks
    /\ j \notin DOMAIN tasks_status
    /\ completed_tasks[j].status = "error"
    /\ Has(completed_tasks[j], "last_updated")
    /\ ~Has(completed_tasks[j], "completed_at")

\* C15: a sweep of _cleanup_old_tasks never deletes an active record: every
\* id it removes from the active partition is in the terminal partition
\* afterwards, and an id it removes from both partitions was a terminal
\* record older than the retention window.
C15_SweepKeepsActiveIds ==
    [][(last'.op = "cleanup") =>
          /\ \A j \in DOMAIN tasks_status \ DOMAIN tasks_status' :
                 j \in DOMAIN completed_tasks'
          /\ \A j \in StoredIds \ (DOMAIN tasks_status' \cup DOMAIN completed_tasks') :
                 /\ j \notin DOMAIN tasks_status
                 /\ TerminalAge(completed_tasks[j], now) > RETENTION]_vars

\* a sweep has relocated an old error record and has resolved and relocated
\* an unknown one
C15_Witness ==
    /\ SweepDone
    /\ \E a, b \in JobIds :
          /\ a # b
          /\ RelocatedError(a)
          /\ now - completed_tasks[a].last_updated > ERROR_AGE
          /\ b \in DOMAIN last.resolved
          /\ last.resolved[b].result.status \in TerminalStatuses
          /\ b \in DOMAIN completed_tasks
          /\ b \notin DOMAIN tasks_status

\* C16: a sweep of _cleanup_old_tasks moves every active record with status
\* error whose last_updated is more than one hour in the past to the terminal
\* partition, leaves an error record that is not yet that old in place, and
\* changes nothing for the records already in the terminal partition.
C16_ErrorRule ==
    [][(last'.op = "cleanup") =>
          /\ \A j \in DOMAIN tasks_status :
                (tasks_status[j].status = "error" /\ Has(tasks_status[j], "last_updated"))
                  => IF now - tasks_status[j].last_updated > ERROR_AGE
                        THEN /\ j \notin DOMAIN tasks_status'
                             /\ j \in DOMAIN completed_tasks'
                             /\ completed_tasks'[j] = tasks_status[j]
                        ELSE /\ j \in DOMAIN tasks_status'
                             /\ tasks_status'[j] = tasks_status[j]
                             /\ j \notin DOMAIN completed_tasks'
          /\ \A j \in DOMAIN completed_tasks :
                /\ j \in DOMAIN completed_tasks'
                /\ completed_tasks'[j] = completed_tasks[j]]_vars

\* a sweep one hour and one second after time 0 has moved the error record
\* stamped 0 and has left the one stamped 1 in the active partition
C16_Witness ==
    /\ SweepDone
    /\ now = ERROR_AGE + 1
    /\ \E a, b \in JobIds :
          /\ RelocatedError(a)
          /\ completed_tasks[a].last_updated = 0
          /\ b \in DOMAIN tasks_status
          /\ tasks_status[b].status = "error"
          /\ Get(tasks_status[b], "last_updated", 0) = 1

\* C17: every id with a record in either partition is in the listing of
\* get_all_tasks_status; a job the resolver could not resolve (its result is
\* unknown or error) is listed after the tick or sweep with status unknown or
\* error and a message; an id leaves the listing only by delete_task or by
\* the sweep's retention rule.
C17_ListedUntilDeleted ==
    [][LET before == GetAllTasksStatus(tasks_status, completed_tasks)
           after == GetAllTasksStatus(tasks_status', completed_tasks')
       IN  /\ DOMAIN after = DOMAIN tasks_status' \cup DOMAIN completed_tasks'
           /\ \A j \in DOMAIN before \ DOMAIN after :
                \/ last'.op = "delete_task" /\ last'.task_id = j
                \/ /\ last'.op = "cleanup"
                   /\ j \in DOMAIN completed_tasks
                   /\ TerminalAge(completed_tasks[j], now) > RETENTION
           /\ (last'.op \in {"tick", "cleanup"}) =>
                \A j \in DOMAIN last'.resolved :
                    last'.resolved[j].result.status \in {"unknown", "error"}
                      => /\ j \in DOMAIN after
                         /\ after[j].status \in {"unknown", "error"}
                         /\ Has(after[j], "message")
                         /\ after[j].message # ""]_vars

\* a tick whose history fetch failed has left the job in the listing, in the
\* terminal partition, with status error
C17_Witness ==
    /\ TickDone
    /\ \E j \in DOMAIN last.resolved :
          /\ last.resolved[j].kind \in FailureKinds
          /\ j \notin DOMAIN tasks_status
          /\ j \in DOMAIN GetAllTasksStatus(tasks_status, completed_tasks)
          /\ GetAllTasksStatus(tasks_status, completed_tasks)[j].status = "error"

\* C18: after delete_task(id) the id is in neither partition and the records
\* of every other id are as they were.
C18_DeleteRemovesOnlyThatId ==
    [][(last'.op = "delete_task") =>
          LET id == last'.task_id
          IN  /\ id \notin DOMAIN tasks_status'
              /\ id \notin DOMAIN completed_tasks'
              /\ DOMAIN tasks_status' = DOMAIN tasks_status \ {id}
              /\ DOMAIN completed_tasks' = DOMAIN completed_tasks \ {id}
              /\ \A j \in DOMAIN tasks_status' : tasks_status'[j] = tasks_status[j]
              /\ \A j \in DOMAIN completed_tasks' :
                     completed_tasks'[j] = completed_tasks[j]]_vars

\* delete_task has removed a stored id while another id has a record
C18_Witness ==
    /\ last.op = "delete_task"
    /\ last.existed
    /\ last.task_id \notin StoredIds
    /\ StoredIds # {}

C20_StoreErrorLeavesRecords ==
    (last.op = "store_error") =>
        /\ tasks_status = last.tasks_status
        /\ completed_tasks = last.completed_tasks
        /\ \A j \in StoredIds :
              WaitForCompletion(tasks_status, completed_tasks, j).status = "error"
                => /\ j \in DOMAIN last.tasks_status \cup DOMAIN last.completed_tasks
                   /\ WaitForCompletion(last.tasks_status, last.completed_tasks,
                                        j).status = "error"

\* C21: the reconciliation loop is single-flight: no tick is under way in
\* one updater while a tick is under way in another.
C21_SingleFlight ==
    ~(tick_call.pc # "idle" /\ twin_call.pc # "idle")

\* C22: a tick whose GET /queue fails or does not parse calls the resolver
\* for no record, relocates nothing and leaves the store as it is, and the
\* loop is then ready for a further tick.
C22_FailedFetchEndsTick ==
    /\ [][(last'.op = "tick" /\ ~last'.fetched) =>
             /\ last'.resolved = EmptyHash
             /\ tasks_status' = tasks_status
             /\ completed_tasks' = completed_tasks
             /\ pending_tasks' = pending_tasks
             /\ running_tasks' = running_tasks
             /\ files' = files]_vars
    /\ []((last.op = "tick" /\ ~last.fetched) => ENABLED UpdateQueueStatusSweep)

\* a tick has failed at its fetch while a job that has left the queue is
\* waiting in the active partition to be resolved
C22_Witness ==
    /\ last.op = "tick"
    /\ ~last.fetched
    /\ \E j \in DOMAIN tasks_status :
          /\ j \in finished
          /\ j \notin SeqIds(queue_running) \cup SeqIds(queue_pending)
          /\ tasks_status[j].status \notin TerminalStatuses

ResolverStatuses == {"completed", "error", "processing", "unknown"}

\* the messages of the three error returns of lines 604-622
GenericMessages == {MsgNotFound, MsgHistoryHttp, MsgHistoryFailed}

\* C23: _check_task_history returns an outcome for every answer of the
\* history endpoint and every failure of the fetch, the parse or the
\* download: every record the scan hands to it gets a result with a status
\* and a message, and a failed fetch, a missing entry or a failed download
\* gives status error with one of the fixed messages.
C23_ResolverAlwaysReturns ==
    [][(last'.op = "tick" /\ last'.fetched) =>
          /\ \A j \in DOMAIN tasks_status :
                NeedsHistory(j, tasks_status[j],
                             SeqIds(queue_running) \cup SeqIds(queue_pending))
                  => j \in DOMAIN last'.resolved
          /\ \A j \in DOMAIN last'.resolved :
                LET r == last'.resolved[j]
                IN  /\ r.result.status \in ResolverStatuses
                    /\ Has(r.result, "message")
                    /\ (r.kind \in FailureKinds \cup {"missing"} \/ r.download.raised)
                          => /\ r.result.status = "error"
                             /\ r.result.message \in GenericMessages]_vars

\* a tick has called the resolver for a job whose artifact download failed
C23_Witness ==
    /\ TickDone
    /\ \E j \in DOMAIN last.resolved :
          /\ last.resolved[j].download.raised
          /\ last.resolved[j].result = HistoryError(MsgHistoryFailed)
          /\ j \in DOMAIN completed_tasks

\* C24: the prompt the tick extracts from a graph is the text of the first
\* text-encoding node in iteration order, where it creates a record as where
\* it fills one in: after a tick every listed job that had no record has the
\* text of the first matching node of its graph as its prompt.
C24_FirstTextNodeIsPrompt ==
    [][(last'.op = "tick" /\ last'.fetched) =>
          \A j \in (SeqIds(queue_running) \cup SeqIds(queue_pending))
                       \ DOMAIN tasks_status :
              LET first == FirstHit(workflows[j], PromptHitBasic)
              IN  first.found
                    => /\ j \in DOMAIN tasks_status'
                       /\ Get(tasks_status'[j], "prompt", None) = first.value]_vars

\* C25: after a tick every job the snapshot lists as pending has status
\* pending, its 1-based rank in the snapshot's pending list as queue_position
\* and in the message, and a waiting_started, which is the time of this tick
\* when the record had none before; of two pending jobs the earlier one has
\* the smaller queue_position.
C25_PendingRank ==
    [][(last'.op = "tick" /\ last'.fetched) =>
          /\ \A k \in 1..Len(queue_pending) :
                LET j == queue_pending[k]
                IN  /\ Has(tasks_status', j)
                    /\ tasks_status'[j].status = "pending"
                    /\ tasks_status'[j].queue_position = k
                    /\ tasks_status'[j].message = QueueMessage(k)
                    /\ Has(tasks_status'[j], "waiting_started")
                    /\ (~(Has(tasks_status, j) /\ Has(tasks_status[j], "waiting_started"))
                          => tasks_status'[j].waiting_started = now)
          /\ \A k1, k2 \in 1..Len(queue_pending) :
                k1 < k2 => tasks_status'[queue_pending[k1]].queue_position
                             < tasks_status'[queue_pending[k2]].queue_position]_vars

\* a tick has ranked two pending jobs, one of which it saw pending for the
\* first time
C25_Witness ==
    /\ last.op = "tick" /\ last.fetched
    /\ Len(queue_pending) = 2
    /\ \A k \in 1..2 : /\ Has(tasks_status, queue_pending[k])
                        /\ tasks_status[queue_pending[k]].status = "pending"
                        /\ tasks_status[queue_pending[k]].queue_position = k

\* C26: within one tick the record of a job is written at most once, whatever
\* the two lists of the snapshot hold, an id in both lists or twice in one
\* list included.
C26_OneUpdatePerTick ==
    (last.op = "tick" /\ last.fetched) => \A j \in JobIds : last.hsets[j] <= 1

\* C27: when the history endpoint answers 200 and no artifact is found, the
\* resolver returns completed without artifact for a successful completion,
\* error for a failed completion, processing for a job not yet completed and
\* unknown when none of these can be told, an answer that holds no execution
\* record for the job id included.
C27_NoArtifactOutcome ==
    last.op \in {"tick", "cleanup"} =>
        \A j \in DOMAIN last.resolved :
            LET e == last.resolved[j]
            IN  /\ e.kind = "success_no_output"
                     => e.result.status = "completed" /\ ~Has(e.result, "output_path")
                /\ e.kind = "failed" => e.result.status = "error"
                /\ e.kind = "not_completed" => e.result.status = "processing"
                /\ e.kind \in {"no_status", "missing"} => e.result.status = "unknown"

\* C28: a file is at its final local path only after a complete download:
\* no local path ever holds a partly written file, which a later call for
\* the same reference would return as the artifact.
C28_NoPartialFile ==
    \A p \in LocalPaths : files[p] \in {"absent", "complete"}

\* C29: a sweep hands every active record with status unknown to the history
\* resolver; the id is moved to the terminal partition exactly when the
\* resolver returns completed or error, and with any other outcome the
\* record stays in the active partition as it was.
C29_UnknownRule ==
    [][(last'.op = "cleanup") =>
          \A j \in DOMAIN tasks_status :
              tasks_status[j].status = "unknown"
                => /\ Has(last'.resolved, j)
                   /\ IF last'.resolved[j].result.status \in {"completed", "error"}
                         THEN /\ j \notin DOMAIN tasks_status'
                              /\ j \in DOMAIN completed_tasks'
                              /\ completed_tasks'[j].status
                                    = last'.resolved[j].result.status
                         ELSE /\ j \in DOMAIN tasks_status'
                              /\ tasks_status'[j] = tasks_status[j]
                              /\ Has(completed_tasks', j) = Has(completed_tasks, j)]_vars

\* a sweep has moved one unknown record, which the resolver found ended, and
\* has left another, which the resolver found still processing
C29_Witness ==
    /\ SweepDone
    /\ \E a, b \in JobIds :
          /\ Has(last.resolved, a) /\ Has(last.resolved, b)
          /\ last.resolved[a].result.status \in {"completed", "error"}
          /\ a \in DOMAIN completed_tasks /\ a \notin DOMAIN tasks_status
          /\ last.resolved[b].result.status = "processing"
          /\ b \in DOMAIN tasks_status /\ tasks_status[b].status = "unknown"

\* the active error records that were due for relocation when the sweep
\* began and are still in the active partition
DueErrors ==
    {j \in DOMAIN last.tasks_status \cap DOMAIN tasks_status :
        /\ last.tasks_status[j].status = "error"
        /\ Has(last.tasks_status[j], "last_updated")
        /\ now - last.tasks_status[j].last_updated > ERROR_AGE}

C32_SubmitPutsFreshKey ==
    [][(gen_call.pc = "hset" /\ gen_call'.pc = "sadd") =>
          /\ ~Has(tasks_status, gen_call.prompt_id)
          /\ ~Has(completed_tasks, gen_call.prompt_id)]_vars

\* C33: a job the engine holds as pending or running is never in the
\* terminal partition, also when the tick took its snapshot before the job
\* was submitted and scans the active partition after the job's record was
\* stored.
C33_QueuedJobNotTerminal ==
    \A j \in SeqIds(queue_running) \cup SeqIds(queue_pending) :
        ~Has(completed_tasks, j)

\* C34: once delete_task has returned for a submitted job that the engine's
\* queue no longer lists, no partition holds a record of it and none ever
\* does again: no step of a tick or a sweep that read the record before the
\* delete writes it back.  (With no submission and no delete under way, a
\* submitted job has no record only after a delete.)
C34_DeletedStaysDeleted ==
    [][\A j \in DOMAIN workflows :
          (/\ del_call.pc = "idle" /\ gen_call.pc = "idle"
           /\ j \notin SeqIds(queue_running) \cup SeqIds(queue_pending)
           /\ ~Has(tasks_status, j) /\ ~Has(completed_tasks, j))
            => (~Has(tasks_status', j) /\ ~Has(completed_tasks', j))]_vars

\* the fields generate_video writes at submission (lines 958-975)
SubmissionFields ==
    {"prompt", "model", "seed", "created_at",
     "batch_id", "segment_index", "total_segments", "content"}

\* C35: when a sweep resolves an unknown record to a terminal outcome, the
\* record it writes to the terminal partition keeps the fields the job had:
\* prompt, model, seed, created_at and the batch fields are those of the
\* active record.
C35_SweepKeepsFields ==
    [][(last'.op = "cleanup") =>
          \A j \in DOMAIN tasks_status :
              (/\ tasks_status[j].status = "unknown"
               /\ ~Has(tasks_status', j)
               /\ Has(completed_tasks', j))
                => \A f \in SubmissionFields \cap DOMAIN tasks_status[j] :
                      /\ Has(completed_tasks'[j], f)
                      /\ completed_tasks'[j][f] = tasks_status[j][f]]_vars

\* C36: every record in the terminal partition has completed_at, whether the
\* tick relocated it or a sweep did, by its rule for old error records or by
\* its rule for unknown records.
C36_TerminalHasCompletedAt ==
    \A j \in DOMAIN completed_tasks : Has(completed_tasks[j], "completed_at")

\* C37: a tick changes only the lifecycle fields of an existing active
\* record: the seed, created_at and the batch fields written at submission,
\* and a prompt or model that holds a value, are the same after the tick,
\* in the active partition or in the terminal one when the tick relocated
\* the record.
C37_TickKeepsSubmissionFields ==
    [][(last'.op = "tick") =>
          \A j \in DOMAIN tasks_status :
              /\ Has(tasks_status', j) \/ Has(completed_tasks', j)
              /\ LET old == tasks_status[j]
                     new == IF Has(tasks_status', j) THEN tasks_status'[j]
                            ELSE completed_tasks'[j]
                 IN  \A f \in SubmissionFields \cap DOMAIN old :
                        \/ f \in {"prompt", "model"} /\ old[f] = None
                        \/ Has(new, f) /\ new[f] = old[f]]_vars

\* C38: after a tick that fetched the snapshot, running_tasks holds exactly
\* the ids the snapshot lists as running and pending_tasks exactly those it
\* lists as pending; an id that a submission added to pending_tasks and that
\* the snapshot does not list as pending is no longer in it.
C38_IndexesMatchSnapshot ==
    [][(last'.op = "tick" /\ last'.fetched) =>
          /\ running_tasks' = SeqIds(queue_running)
          /\ pending_tasks' = SeqIds(queue_pending)]_vars

\* a tick has taken a submitted job, now running, out of the pending index
\* while another job is listed as pending
C38_Witness ==
    /\ last.op = "tick" /\ last.fetched
    /\ \E a, b \in JobIds :
          /\ a # b
          /\ queue_running = <<a>> /\ queue_pending = <<b>>
          /\ running_tasks = {a} /\ pending_tasks = {b}
          /\ Has(tasks_status, a) /\ Has(tasks_status[a], "seed")

\* C39: _wait_for_completion is a read with a fixed precedence: it returns
\* the terminal record when the id is in the terminal partition, else the
\* active record, else a synthetic record with status unknown, and it leaves
\* both partitions, the two indexes and the files as they are.  (The steps
\* of the other calls leave last as it is, so a change of last to a lookup
\* is a step of the lookup.)
C39_GetJobIsPureRead ==
    [][(last' # last /\ last'.op = "get_history") =>
          /\ LET j == last'.task_id
                 ret == last'.ret
             IN  IF Has(completed_tasks, j) THEN ret = completed_tasks[j]
                 ELSE IF Has(tasks_status, j) THEN ret = tasks_status[j]
                 ELSE ret.status = "unknown"
          /\ UNCHANGED storeVars]_vars

\* the lookup has answered with the terminal record of an id that both
\* partitions hold
C39_Witness ==
    /\ last.op = "get_history"
    /\ Has(completed_tasks, last.task_id)
    /\ Has(tasks_status, last.task_id)
    /\ completed_tasks[last.task_id] # tasks_status[last.task_id]
    /\ last.ret = completed_tasks[last.task_id]

====
